---- MODULE Spec2Model ----
(***************************************************************************)
(* State-machine model of the family-tree service: the access-control      *)
(* resolver (app/trees.py, app/groups.py), the tree-scoped relationship    *)
(* endpoints (app/main.py) and the graph operations they call (the         *)
(* Kuzu-backed app/crud.py: relationship validation inputs, merge, spousal *)
(* reconciliation).                                                        *)
(***************************************************************************)
EXTENDS Integers, FiniteSets, Sequences, Bags, TLC

\* ------------------------------------------------------------------------
\* Universes and bounds
\* ------------------------------------------------------------------------
MaxPersons == 3          \* person ids are 1..MaxPersons, never reused
MaxRels == 3             \* a request that adds an edge needs fewer than this many
MaxChildren == 2         \* children of the two partners of a family
MaxMergeItems == 3       \* edges plus comments created by direct crud calls
MaxGateRels == 2         \* edges in the graph when the gate is exercised
MaxLegacyPersons == 1    \* persons created through POST /people
MaxRows == 2             \* data rows of an imported file
MaxInFlight == 2         \* requests between their validation and their write
MaxRaceRels == 3         \* edges written or about to be written by racing requests
MaxTreeItems == 2        \* edges, comments and share links of the trees to delete
MaxPersonItems == 3      \* edges and comments around the persons to delete
MaxChanges == 2          \* entries of the audit log
MaxCrashItems == 3       \* edges and comments before an interrupted merge
MaxSqlRels == 3          \* rows of the relationship table of the relational store
MaxVersions == 3         \* rows of the tree_versions table
MaxSqlPersons == 2       \* rows ever added to the person table
MaxDrafts == 1           \* rows ever added to the working_changes table
MaxDirectRels == 1       \* relationship rows before the last direct create_relationship
MaxPublishedRels == 2    \* relationship rows after a publish_drafts call

Users == {"u1", "u2"}
TreeIds == {"t1"}
GroupIds == {"g1", "g2"}
PersonIds == 1..MaxPersons
SortedNames == <<"P", "X", "Y">>      \* the display names, in sorted order
Names == {"X", "Y"}                   \* names given to new persons
AdultName == "P"
Adults == {1, 2}                      \* the two partners of a family
MergePersons == {1, 2, 3}             \* keep, remove and a third person
RelTypes == {"PARENT_OF", "SPOUSE_OF"}
GrantRoles == {"editor", "viewer"}
MinRoles == {"viewer", "editor", "owner"}

VARIABLES
    trees,              \* FamilyTree nodes: set of tree ids
    tree_ids_issued,    \* tree ids ever handed out by create_tree
    groups,             \* UserGroup nodes: group id -> [created_by]
    owns,               \* OWNS edges: set of [user, tree]
    can_access,         \* CAN_ACCESS edges: set of [user, tree, role]
    member_of,          \* MEMBER_OF edges: set of [user, group]
    group_can_access,   \* GROUP_CAN_ACCESS edges: set of [group, tree, role]
    people,             \* Person nodes: person id -> record
    next_person_id,     \* next fresh person id
    rels,               \* PARENT_OF / SPOUSE_OF edges: bag of [from, to, type]
    comments,           \* PersonComment nodes: comment id -> record
    users,              \* User nodes: user id -> [email, is_admin]
    share_links,        \* ShareLink nodes: set of [token, tree_id]
    failing,            \* edges the store currently fails to create
    in_flight,          \* requests that have validated and not yet written
    changes,            \* TreeChange nodes: set of [id, tree_id, user_id]
    merge_run,          \* the merge under way: its step and what it found on remove
    sql,                \* the versioned relational store: [trees, versions, relationships]
    resp                \* the response of the last request

envVars == <<failing, in_flight, changes, merge_run, sql>>
storedAclVars == <<trees, tree_ids_issued, groups, owns, can_access, member_of,
                  group_can_access, users, share_links>>
aclVars == <<trees, tree_ids_issued, groups, owns, can_access, member_of, group_can_access,
            users, share_links, failing, in_flight, changes, merge_run, sql>>
graphVars == <<people, next_person_id, rels, comments>>
vars == <<trees, tree_ids_issued, groups, owns, can_access, member_of,
          group_can_access, people, next_person_id, rels, comments, users,
          share_links, failing, in_flight, changes, merge_run, sql, resp>>

NoResp == [op |-> "none", status |-> 0]

\* no merge has been started
NoMerge == [step |-> "idle"]

\* the relational store without rows
EmptySql ==
    [trees |-> {}, versions |-> {}, persons |-> {}, relationships |-> EmptyBag,
     drafts |-> <<>>, person_seq |-> 0, draft_seq |-> 0]

\* the e-mail address each user registers with
EmailOf == [u \in Users |-> IF u = "u1" THEN "a@x" ELSE "b@x"]

\* the store creates every edge; no request and no merge is under way; the
\* audit log is empty
InitEnv ==
    /\ failing = {}
    /\ in_flight = {}
    /\ changes = {}
    /\ merge_run = NoMerge
    /\ sql = EmptySql

\* every user is registered (the first one as admin); there are no share links
InitAccounts ==
    /\ users = [u \in Users |-> [email |-> EmailOf[u], is_admin |-> (u = "u1")]]
    /\ share_links = {}

\* ------------------------------------------------------------------------
\* Access control resolver (app/trees.py)
\* ------------------------------------------------------------------------
ROLE_HIERARCHY == [owner |-> 3, editor |-> 2, viewer |-> 1, none |-> 0]

\* ROLE_HIERARCHY.get(role, 0)
Rank(role) == IF role \in DOMAIN ROLE_HIERARCHY THEN ROLE_HIERARCHY[role] ELSE 0

\* rows of "MATCH (u)-[r:CAN_ACCESS]->(t) ... RETURN r.role"
DirectRows(u, t) == {g \in can_access : g.user = u /\ g.tree = t}

\* rows of "MATCH (u)-[:MEMBER_OF]->(g)-[r:GROUP_CAN_ACCESS]->(t) ... RETURN r.role"
GroupRows(u, t) ==
    {pr \in member_of \X group_can_access :
        pr[1].user = u /\ pr[1].group = pr[2].group /\ pr[2].tree = t}

\* the loop "if rank(role) > rank(best): best = role" over a set of roles
BestOf(best, roles) ==
    IF \E r \in roles : Rank(r) > Rank(best)
    THEN CHOOSE r \in roles : Rank(r) > Rank(best) /\ \A q \in roles : Rank(q) <= Rank(r)
    ELSE best

\* variant: the first direct grant found is returned without looking at the groups
get_user_role_ShortCircuit(u, t) ==
    IF \E o \in owns : o.user = u /\ o.tree = t
    THEN "owner"
    ELSE IF DirectRows(u, t) # {}
         THEN (CHOOSE g \in DirectRows(u, t) : TRUE).role
         ELSE BestOf("none", {pr[2].role : pr \in GroupRows(u, t)})

\* variant: the ownership check comes after the grants instead of before them
get_user_role_GrantsFirst(u, t) ==
    LET roles == {g.role : g \in DirectRows(u, t)} \cup {pr[2].role : pr \in GroupRows(u, t)}
    IN  IF roles # {}
        THEN BestOf("none", roles)
        ELSE IF \E o \in owns : o.user = u /\ o.tree = t THEN "owner" ELSE "none"

get_user_role(u, t) ==
    IF \E o \in owns : o.user = u /\ o.tree = t
    THEN "owner"
    ELSE LET direct == DirectRows(u, t)
             \* result.has_next(): only the first row is read
             best1 == IF direct # {}
                      THEN BestOf("none", {(CHOOSE g \in direct : TRUE).role})
                      ELSE "none"
         IN  BestOf(best1, {pr[2].role : pr \in GroupRows(u, t)})

\* variant: an insufficient role is always answered 403, also for role none
require_role_NoHide(u, t, min_role) ==
    LET role == get_user_role(u, t)
    IN  IF Rank(role) < Rank(min_role)
        THEN [status |-> 403, role |-> role]
        ELSE [status |-> 200, role |-> role]

\* require_role: the HTTP status it raises (200 when it returns) and the role
require_role(u, t, min_role) ==
    LET role == get_user_role(u, t)
    IN  IF Rank(role) < Rank(min_role)
        THEN IF role = "none"
             THEN [status |-> 404, role |-> role]
             ELSE [status |-> 403, role |-> role]
        ELSE [status |-> 200, role |-> role]

\* ---- tree and grant operations ----
\* variant: the tree node is created, the OWNS edge is not
create_tree_NoOwner(t, owner_id) ==
    /\ t \in TreeIds \ tree_ids_issued
    /\ trees' = trees \cup {t}
    /\ tree_ids_issued' = tree_ids_issued \cup {t}
    /\ resp' = [op |-> "create_tree", status |-> 200]
    /\ UNCHANGED <<groups, owns, can_access, member_of, group_can_access>>
    /\ UNCHANGED graphVars
    /\ UNCHANGED <<users, share_links>>
    /\ UNCHANGED envVars

create_tree(t, owner_id) ==
    /\ t \in TreeIds \ tree_ids_issued
    /\ trees' = trees \cup {t}
    /\ tree_ids_issued' = tree_ids_issued \cup {t}
    /\ owns' = owns \cup {[user |-> owner_id, tree |-> t]}
    /\ resp' = [op |-> "create_tree", status |-> 200]
    /\ UNCHANGED <<groups, can_access, member_of, group_can_access>>
    /\ UNCHANGED graphVars
    /\ UNCHANGED <<users, share_links>>
    /\ UNCHANGED envVars

\* variant: a CAN_ACCESS edge is created without looking for an existing one
grant_user_access_AlwaysCreate(t, u, role) ==
    /\ can_access' = IF t \in trees
                      THEN can_access \cup {[user |-> u, tree |-> t, role |-> role]}
                      ELSE can_access
    /\ resp' = [op |-> "grant_user_access", status |-> 200]
    /\ UNCHANGED <<trees, tree_ids_issued, groups, owns, member_of, group_can_access>>
    /\ UNCHANGED graphVars
    /\ UNCHANGED <<users, share_links>>
    /\ UNCHANGED envVars

grant_user_access(t, u, role) ==
    /\ can_access' =
          IF DirectRows(u, t) # {}
          THEN {IF g.user = u /\ g.tree = t THEN [g EXCEPT !.role = role] ELSE g : g \in can_access}
          ELSE IF t \in trees
               THEN can_access \cup {[user |-> u, tree |-> t, role |-> role]}
               ELSE can_access
    /\ resp' = [op |-> "grant_user_access", status |-> 200]
    /\ UNCHANGED <<trees, tree_ids_issued, groups, owns, member_of, group_can_access>>
    /\ UNCHANGED graphVars
    /\ UNCHANGED <<users, share_links>>
    /\ UNCHANGED envVars

update_user_access(t, u, role) ==
    /\ can_access' =
          {IF g.user = u /\ g.tree = t THEN [g EXCEPT !.role = role] ELSE g : g \in can_access}
    /\ resp' = [op |-> "update_user_access", status |-> 200]
    /\ UNCHANGED <<trees, tree_ids_issued, groups, owns, member_of, group_can_access>>
    /\ UNCHANGED graphVars
    /\ UNCHANGED <<users, share_links>>
    /\ UNCHANGED envVars

revoke_user_access(t, u) ==
    /\ can_access' = can_access \ DirectRows(u, t)
    /\ resp' = [op |-> "revoke_user_access", status |-> 200]
    /\ UNCHANGED <<trees, tree_ids_issued, groups, owns, member_of, group_can_access>>
    /\ UNCHANGED graphVars
    /\ UNCHANGED <<users, share_links>>
    /\ UNCHANGED envVars

GroupGrantRows(t, g) == {x \in group_can_access : x.group = g /\ x.tree = t}

grant_group_access(t, g, role) ==
    /\ group_can_access' =
          IF GroupGrantRows(t, g) # {}
          THEN {IF x.group = g /\ x.tree = t THEN [x EXCEPT !.role = role] ELSE x :
                    x \in group_can_access}
          ELSE IF t \in trees /\ g \in DOMAIN groups
               THEN group_can_access \cup {[group |-> g, tree |-> t, role |-> role]}
               ELSE group_can_access
    /\ resp' = [op |-> "grant_group_access", status |-> 200]
    /\ UNCHANGED <<trees, tree_ids_issued, groups, owns, can_access, member_of>>
    /\ UNCHANGED graphVars
    /\ UNCHANGED <<users, share_links>>
    /\ UNCHANGED envVars

update_group_access(t, g, role) ==
    /\ group_can_access' =
          {IF x.group = g /\ x.tree = t THEN [x EXCEPT !.role = role] ELSE x :
              x \in group_can_access}
    /\ resp' = [op |-> "update_group_access", status |-> 200]
    /\ UNCHANGED <<trees, tree_ids_issued, groups, owns, can_access, member_of>>
    /\ UNCHANGED graphVars
    /\ UNCHANGED <<users, share_links>>
    /\ UNCHANGED envVars

revoke_group_access(t, g) ==
    /\ group_can_access' = group_can_access \ GroupGrantRows(t, g)
    /\ resp' = [op |-> "revoke_group_access", status |-> 200]
    /\ UNCHANGED <<trees, tree_ids_issued, groups, owns, can_access, member_of>>
    /\ UNCHANGED graphVars
    /\ UNCHANGED <<users, share_links>>
    /\ UNCHANGED envVars

\* ---- groups (app/groups.py) ----
create_group(g, created_by) ==
    /\ g \in GroupIds \ DOMAIN groups
    /\ groups' = [x \in DOMAIN groups \cup {g} |->
                    IF x = g THEN [created_by |-> created_by] ELSE groups[x]]
    /\ resp' = [op |-> "create_group", status |-> 200]
    /\ UNCHANGED <<trees, tree_ids_issued, owns, can_access, member_of, group_can_access>>
    /\ UNCHANGED graphVars
    /\ UNCHANGED <<users, share_links>>
    /\ UNCHANGED envVars

add_member(g, u) ==
    /\ member_of' =
          IF \E m \in member_of : m.user = u /\ m.group = g
          THEN member_of
          ELSE IF g \in DOMAIN groups
               THEN member_of \cup {[user |-> u, group |-> g]}
               ELSE member_of
    /\ resp' = [op |-> "add_member", status |-> 200]
    /\ UNCHANGED <<trees, tree_ids_issued, groups, owns, can_access, group_can_access>>
    /\ UNCHANGED graphVars
    /\ UNCHANGED <<users, share_links>>
    /\ UNCHANGED envVars

remove_member(g, u) ==
    /\ member_of' = {m \in member_of : ~(m.user = u /\ m.group = g)}
    /\ resp' = [op |-> "remove_member", status |-> 200]
    /\ UNCHANGED <<trees, tree_ids_issued, groups, owns, can_access, group_can_access>>
    /\ UNCHANGED graphVars
    /\ UNCHANGED <<users, share_links>>
    /\ UNCHANGED envVars

\* variant: only the group node goes, its memberships and grants stay
delete_group_NodeOnly(g) ==
    /\ groups' = [x \in DOMAIN groups \ {g} |-> groups[x]]
    /\ resp' = [op |-> "delete_group", status |-> 200]
    /\ UNCHANGED <<trees, tree_ids_issued, owns, can_access, member_of, group_can_access>>
    /\ UNCHANGED graphVars
    /\ UNCHANGED <<users, share_links>>
    /\ UNCHANGED envVars

delete_group(g) ==
    /\ groups' = [x \in DOMAIN groups \ {g} |-> groups[x]]
    /\ member_of' = {m \in member_of : m.group # g}
    /\ group_can_access' = {x \in group_can_access : x.group # g}
    /\ resp' = [op |-> "delete_group", status |-> 200]
    /\ UNCHANGED <<trees, tree_ids_issued, owns, can_access>>
    /\ UNCHANGED graphVars
    /\ UNCHANGED <<users, share_links>>
    /\ UNCHANGED envVars

\* a caller evaluating the gate: the outcome is recorded, nothing is written
call_require_role(u, t, min_role) ==
    /\ resp' = [op |-> "require_role", user |-> u, tree |-> t, min_role |-> min_role,
                status |-> require_role(u, t, min_role).status,
                role |-> require_role(u, t, min_role).role]
    /\ UNCHANGED aclVars
    /\ UNCHANGED graphVars

\* ------------------------------------------------------------------------
\* Graph store operations (Kuzu-backed crud layer).  A store is the record
\* [people, rels, comments]; every operation maps a store to a store.
\* ------------------------------------------------------------------------
Store == [people |-> people, rels |-> rels, comments |-> comments]

Edge(f, t, ty) == [from |-> f, to |-> t, type |-> ty]

\* number of edges of bag R that lie in the set S of distinct edges
CountIn(R, S) == BagCardinality([e \in S |-> R[e]])

\* create_person(conn, display_name, sex, notes, tree_id=...)
create_person(S, id, display_name, sex, notes, tree_id) ==
    [S EXCEPT !.people =
        [x \in DOMAIN S.people \cup {id} |->
            IF x = id
            THEN [display_name |-> display_name, sex |-> sex, notes |-> notes,
                  birth_date |-> "", death_date |-> "", is_deceased |-> FALSE,
                  tree_id |-> tree_id]
            ELSE S.people[x]]]

\* get_person(conn, person_id, tree_id=None): does it find a person
person_found(S, id, tree_id) ==
    /\ id \in DOMAIN S.people
    /\ (tree_id = "" \/ S.people[id].tree_id = tree_id)

get_parents(R, id) ==
    {e.from : e \in {x \in BagToSet(R) : x.type = "PARENT_OF" /\ x.to = id}}

get_children(R, id) ==
    {e.to : e \in {x \in BagToSet(R) : x.type = "PARENT_OF" /\ x.from = id}}

\* incoming PARENT_OF edges of the child
count_parents(R, id) ==
    CountIn(R, {e \in BagToSet(R) : e.type = "PARENT_OF" /\ e.to = id})

\* SPOUSE_OF edges touching the person, in either stored direction
count_spouses(R, id) ==
    CountIn(R, {e \in BagToSet(R) : e.type = "SPOUSE_OF" /\ (e.from = id \/ e.to = id)})

\* _edge_exists: the edge is stored; for SPOUSE_OF the reverse direction counts
edge_exists(R, a, b, ty) ==
    \/ BagIn(Edge(a, b, ty), R)
    \/ (ty = "SPOUSE_OF" /\ BagIn(Edge(b, a, ty), R))

\* create_relationship: MATCH both persons, CREATE one edge between them
create_relationship(S, f, t, ty) ==
    IF f \in DOMAIN S.people /\ t \in DOMAIN S.people
    THEN [S EXCEPT !.rels = S.rels (+) SetToBag({Edge(f, t, ty)})]
    ELSE S

\* delete_relationship(rel_id): one stored edge is deleted
delete_relationship(S, e) ==
    IF BagIn(e, S.rels)
    THEN [S EXCEPT !.rels = S.rels (-) SetToBag({e})]
    ELSE S

\* delete_parent_relationship(parent_id, child_id), for each of the parents
delete_parent_relationships(S, parents, child) ==
    [S EXCEPT !.rels =
        [e \in BagToSet(S.rels) \ {Edge(p, child, "PARENT_OF") : p \in parents} |-> S.rels[e]]]

\* delete_person(person_id, tree_id=None): the person's comments, the person
\* and every edge incident to it
delete_person(S, id, tree_id) ==
    IF person_found(S, id, tree_id)
    THEN [people   |-> [x \in DOMAIN S.people \ {id} |-> S.people[x]],
          rels     |-> [e \in {x \in BagToSet(S.rels) : x.from # id /\ x.to # id} |-> S.rels[e]],
          comments |-> [c \in {x \in DOMAIN S.comments : S.comments[x].person_id # id} |->
                           S.comments[c]]]
    ELSE S

\* ---- merge(keep, remove) ----
IsUnset(field, v) ==
    CASE field = "sex" -> v = "U"
      [] field = "is_deceased" -> v = FALSE
      [] OTHER -> v = ""

MergeFields == {"sex", "notes", "birth_date", "death_date", "is_deceased"}

\* variant: remove's value is adopted whenever remove has one
reconcile_properties_RemoveWins(S, keep, remove) ==
    LET k == S.people[keep]
        r == S.people[remove]
        Pick(f) == IF ~IsUnset(f, r[f]) THEN r[f] ELSE k[f]
    IN  [S EXCEPT !.people[keep] =
            [k EXCEPT !.sex = Pick("sex"), !.notes = Pick("notes"),
                      !.birth_date = Pick("birth_date"), !.death_date = Pick("death_date"),
                      !.is_deceased = Pick("is_deceased")]]

\* step 1: keep adopts remove's value for every field keep leaves unset
reconcile_properties(S, keep, remove) ==
    LET k == S.people[keep]
        r == S.people[remove]
        Pick(f) == IF IsUnset(f, k[f]) /\ ~IsUnset(f, r[f]) THEN r[f] ELSE k[f]
    IN  [S EXCEPT !.people[keep] =
            [k EXCEPT !.sex = Pick("sex"), !.notes = Pick("notes"),
                      !.birth_date = Pick("birth_date"), !.death_date = Pick("death_date"),
                      !.is_deceased = Pick("is_deceased")]]

\* variant: the first edge that fails to be created ends the transfer, no
\* edge is re-created
transfer_edges_AbortOnFailure(S, keep, remove) ==
    LET R0  == S.rels
        out == {Edge(keep, e.to, e.type) :
                   e \in {x \in BagToSet(R0) : x.from = remove /\ x.to # keep}}
        R1  == R0 (+) SetToBag({n \in out : ~edge_exists(R0, n.from, n.to, n.type)})
        inc == {Edge(e.from, keep, e.type) :
                   e \in {x \in BagToSet(R0) : x.to = remove /\ x.from # keep}}
        R2  == R1 (+) SetToBag({n \in inc : ~edge_exists(R1, n.from, n.to, n.type)})
    IN  IF (out \cup inc) \cap failing # {} THEN S ELSE [S EXCEPT !.rels = R2]

\* variant: remove's edges are re-created on keep without looking for an
\* equivalent edge
transfer_edges_NoExistsCheck(S, keep, remove) ==
    LET R0  == S.rels
        out == {Edge(keep, e.to, e.type) :
                   e \in {x \in BagToSet(R0) : x.from = remove /\ x.to # keep}}
        inc == {Edge(e.from, keep, e.type) :
                   e \in {x \in BagToSet(R0) : x.to = remove /\ x.from # keep}}
    IN  [S EXCEPT !.rels = (R0 (+) SetToBag(out)) (+) SetToBag(inc)]

\* step 2: remove's outgoing edges, then its incoming edges, are re-created
\* on keep unless an equivalent edge exists; an edge the store fails to
\* create is skipped
transfer_edges(S, keep, remove) ==
    LET R0  == S.rels
        out == {Edge(keep, e.to, e.type) :
                   e \in {x \in BagToSet(R0) : x.from = remove /\ x.to # keep}}
        R1  == R0 (+) SetToBag({n \in out : ~edge_exists(R0, n.from, n.to, n.type)
                                            /\ n \notin failing})
        inc == {Edge(e.from, keep, e.type) :
                   e \in {x \in BagToSet(R0) : x.to = remove /\ x.from # keep}}
        R2  == R1 (+) SetToBag({n \in inc : ~edge_exists(R1, n.from, n.to, n.type)
                                            /\ n \notin failing})
    IN  [S EXCEPT !.rels = R2]

\* step 3: every comment on remove is re-pointed to keep
reassign_comments(S, keep, remove) ==
    [S EXCEPT !.comments =
        [c \in DOMAIN S.comments |->
            IF S.comments[c].person_id = remove
            THEN [S.comments[c] EXCEPT !.person_id = keep]
            ELSE S.comments[c]]]

\* variant: remove is deleted before its comments are re-pointed
merge_person_into_DeleteFirst(S, keep, remove) ==
    IF keep \in DOMAIN S.people /\ remove \in DOMAIN S.people /\ keep # remove
    THEN reassign_comments(
             delete_person(
                 transfer_edges(reconcile_properties(S, keep, remove), keep, remove),
                 remove, ""),
             keep, remove)
    ELSE S

\* variant: only remove's outgoing edges are transferred
merge_person_into_OutgoingOnly(S, keep, remove) ==
    IF keep \in DOMAIN S.people /\ remove \in DOMAIN S.people /\ keep # remove
    THEN LET S1 == reconcile_properties(S, keep, remove)
             out == {Edge(keep, e.to, e.type) :
                        e \in {x \in BagToSet(S1.rels) : x.from = remove /\ x.to # keep}}
             S2 == [S1 EXCEPT !.rels =
                       S1.rels (+) SetToBag({n \in out :
                                      ~edge_exists(S1.rels, n.from, n.to, n.type)})]
         IN  delete_person(reassign_comments(S2, keep, remove), remove, "")
    ELSE S

\* merge_person_into(keep_id, remove_id): steps 1-3, then remove is deleted
merge_person_into(S, keep, remove) ==
    IF keep \in DOMAIN S.people /\ remove \in DOMAIN S.people /\ keep # remove
    THEN delete_person(
             reassign_comments(
                 transfer_edges(reconcile_properties(S, keep, remove), keep, remove),
                 keep, remove),
             remove, "")
    ELSE S

\* ---- spousal reconciliation ----
NoReport == [merged |-> {}, shared_with_a |-> {}, shared_with_b |-> {}]

\* the children of a parent that carry the given display name
Bucket(S, parent, name) ==
    {c \in get_children(S.rels, parent) :
        c \in DOMAIN S.people /\ S.people[c].display_name = name}

ChildNames(S, parent) ==
    {S.people[c].display_name : c \in get_children(S.rels, parent) \cap DOMAIN S.people}

\* the record a name is bucketed under: the first row of the bucket
FirstOf(ids) == CHOOSE x \in ids : \A y \in ids : x <= y

\* step 3: common names in sorted order; distinct records are merged, A's kept
RECURSIVE merge_common(_, _, _, _, _)
merge_common(S0, S, a, b, names) ==
    IF names = <<>>
    THEN [store |-> S, merged |-> {}]
    ELSE LET n    == Head(names)
             ca   == FirstOf(Bucket(S0, a, n))
             cb   == FirstOf(Bucket(S0, b, n))
         IN  IF ca # cb
             THEN LET rest == merge_common(S0, merge_person_into(S, ca, cb), a, b, Tail(names))
                  IN  [store  |-> rest.store,
                       merged |-> {[name |-> n, kept_id |-> ca, removed_id |-> cb]}
                                      \cup rest.merged]
             ELSE merge_common(S0, S, a, b, Tail(names))

\* step 4: the other partner becomes a parent of every child listed under
\* one partner only, unless that edge exists
share_children(S, parent, children) ==
    [S EXCEPT !.rels =
        S.rels (+) SetToBag({Edge(parent, c, "PARENT_OF") :
                                c \in {x \in children :
                                          /\ parent \in DOMAIN S.people
                                          /\ x \in DOMAIN S.people
                                          /\ ~edge_exists(S.rels, parent, x, "PARENT_OF")
                                          /\ Edge(parent, x, "PARENT_OF") \notin failing}})]

\* merge_spouse_children(a_id, b_id) -> {merged, shared_with_a, shared_with_b}
merge_spouse_children(S, a, b) ==
    LET namesA == ChildNames(S, a)
        namesB == ChildNames(S, b)
        common == SelectSeq(SortedNames, LAMBDA n : n \in namesA \cap namesB)
        m      == merge_common(S, S, a, b, common)
        onlyA  == UNION {Bucket(S, a, n) : n \in namesA \ namesB}
        onlyB  == UNION {Bucket(S, b, n) : n \in namesB \ namesA}
        S1     == share_children(m.store, b, onlyA)
        S2     == share_children(S1, a, onlyB)
    IN  [store  |-> S2,
         report |-> [merged |-> m.merged,
                     shared_with_a |-> namesB \ namesA,
                     shared_with_b |-> namesA \ namesB]]

\* ------------------------------------------------------------------------
\* Specification of the access-control layer
\* ------------------------------------------------------------------------
InitGraphEmpty ==
    /\ people = <<>>
    /\ next_person_id = 1
    /\ rels = EmptyBag
    /\ comments = <<>>

InitAcl ==
    /\ trees = {}
    /\ tree_ids_issued = {}
    /\ groups = <<>>
    /\ owns = {}
    /\ can_access = {}
    /\ member_of = {}
    /\ group_can_access = {}
    /\ resp = NoResp
    /\ InitAccounts
    /\ InitEnv
    /\ InitGraphEmpty

NextAcl ==
    \/ \E t \in TreeIds, u \in Users : create_tree(t, u)
    \/ \E t \in TreeIds, u \in Users, r \in GrantRoles : grant_user_access(t, u, r)
    \/ \E t \in TreeIds, u \in Users, r \in GrantRoles : update_user_access(t, u, r)
    \/ \E t \in TreeIds, u \in Users : revoke_user_access(t, u)
    \/ \E t \in TreeIds, g \in GroupIds, r \in GrantRoles : grant_group_access(t, g, r)
    \/ \E t \in TreeIds, g \in GroupIds, r \in GrantRoles : update_group_access(t, g, r)
    \/ \E t \in TreeIds, g \in GroupIds : revoke_group_access(t, g)
    \/ \E g \in GroupIds, u \in Users : create_group(g, u)
    \/ \E g \in GroupIds, u \in Users : add_member(g, u)
    \/ \E g \in GroupIds, u \in Users : remove_member(g, u)
    \/ \E g \in GroupIds : delete_group(g)
    \/ \E u \in Users, t \in TreeIds, m \in MinRoles : call_require_role(u, t, m)

SpecAcl == InitAcl /\ [][NextAcl]_vars

\* ------------------------------------------------------------------------
\* Tree-scoped endpoints (app/main.py)
\* ------------------------------------------------------------------------
SetGraph(S) ==
    /\ people' = S.people
    /\ rels' = S.rels
    /\ comments' = S.comments

\* ids handed out so far (some of them may have been deleted since)
IssuedIds == 1..(next_person_id - 1)

Denied(op, status) ==
    /\ resp' = [op |-> op, status |-> status]
    /\ UNCHANGED graphVars

\* POST /api/trees/{tree_id}/people
tree_add_person(u, t, name) ==
    LET gate == require_role(u, t, "editor")
    IN  /\ next_person_id <= MaxPersons
        /\ UNCHANGED aclVars
        /\ IF gate.status # 200
           THEN Denied("tree_add_person", gate.status)
           ELSE /\ SetGraph(create_person(Store, next_person_id, name, "U", "", t))
                /\ next_person_id' = next_person_id + 1
                /\ resp' = [op |-> "tree_add_person", status |-> 200]

\* variant: only the person node is removed, its edges and comments stay
tree_delete_person_NodeOnly(u, t, id) ==
    LET gate == require_role(u, t, "editor")
    IN  /\ UNCHANGED aclVars
        /\ IF gate.status # 200
           THEN Denied("tree_delete_person", gate.status)
           ELSE /\ people' = IF person_found(Store, id, t)
                              THEN [x \in DOMAIN people \ {id} |-> people[x]]
                              ELSE people
                /\ UNCHANGED <<rels, comments, next_person_id>>
                /\ resp' = [op |-> "tree_delete_person", status |-> 200]

\* DELETE /api/trees/{tree_id}/people/{person_id}
tree_delete_person(u, t, id) ==
    LET gate == require_role(u, t, "editor")
    IN  /\ UNCHANGED aclVars
        /\ IF gate.status # 200
           THEN Denied("tree_delete_person", gate.status)
           ELSE /\ SetGraph(delete_person(Store, id, t))
                /\ UNCHANGED next_person_id
                /\ resp' = [op |-> "tree_delete_person", status |-> 200]

\* variant: only the first partner of a new SPOUSE_OF edge is checked
validate_new_rel_FromOnly(R, f, c, ty) ==
    IF ty = "PARENT_OF" /\ count_parents(R, c) >= 1 THEN 400
    ELSE IF ty = "SPOUSE_OF" /\ count_spouses(R, f) >= 1 THEN 400
    ELSE 200

\* the cardinality checks tree_add_rel makes before it writes
validate_new_rel(R, f, c, ty) ==
    IF ty = "PARENT_OF" /\ count_parents(R, c) >= 1 THEN 400
    ELSE IF ty = "SPOUSE_OF" /\ count_spouses(R, f) >= 1 THEN 400
    ELSE IF ty = "SPOUSE_OF" /\ count_spouses(R, c) >= 1 THEN 400
    ELSE 200

\* variant: reconciliation is called with the partners in the other order
tree_add_rel_SwappedPartners(u, t, f, c, ty) ==
    LET gate    == require_role(u, t, "editor")
        created == create_relationship(Store, f, c, ty)
        rec     == merge_spouse_children(created, c, f)
    IN  /\ UNCHANGED aclVars
        /\ IF gate.status # 200
           THEN Denied("tree_add_rel", gate.status)
           ELSE /\ UNCHANGED next_person_id
                /\ IF validate_new_rel(rels, f, c, ty) # 200
                   THEN /\ UNCHANGED <<people, rels, comments>>
                        /\ resp' = [op |-> "tree_add_rel", status |-> 400, type |-> ty,
                                    report |-> NoReport]
                   ELSE /\ SetGraph(IF ty = "SPOUSE_OF" THEN rec.store ELSE created)
                        /\ resp' = [op |-> "tree_add_rel", status |-> 200, type |-> ty,
                                    report |-> IF ty = "SPOUSE_OF" THEN rec.report ELSE NoReport]

\* variant: the spouse edge is created without reconciling the children
tree_add_rel_NoReconcile(u, t, f, c, ty) ==
    LET gate    == require_role(u, t, "editor")
        created == create_relationship(Store, f, c, ty)
        rec     == [store |-> created, report |-> NoReport]
    IN  /\ UNCHANGED aclVars
        /\ IF gate.status # 200
           THEN Denied("tree_add_rel", gate.status)
           ELSE /\ UNCHANGED next_person_id
                /\ IF validate_new_rel(rels, f, c, ty) # 200
                   THEN /\ UNCHANGED <<people, rels, comments>>
                        /\ resp' = [op |-> "tree_add_rel", status |-> 400, type |-> ty,
                                    report |-> NoReport]
                   ELSE /\ SetGraph(IF ty = "SPOUSE_OF" THEN rec.store ELSE created)
                        /\ resp' = [op |-> "tree_add_rel", status |-> 200, type |-> ty,
                                    report |-> IF ty = "SPOUSE_OF" THEN rec.report ELSE NoReport]

\* POST /api/trees/{tree_id}/relationships
tree_add_rel(u, t, f, c, ty) ==
    LET gate    == require_role(u, t, "editor")
        created == create_relationship(Store, f, c, ty)
        rec     == merge_spouse_children(created, f, c)
    IN  /\ UNCHANGED aclVars
        /\ IF gate.status # 200
           THEN Denied("tree_add_rel", gate.status)
           ELSE /\ UNCHANGED next_person_id
                /\ IF validate_new_rel(rels, f, c, ty) # 200
                   THEN /\ UNCHANGED <<people, rels, comments>>
                        /\ resp' = [op |-> "tree_add_rel", status |-> 400, type |-> ty,
                                    report |-> NoReport]
                   ELSE /\ SetGraph(IF ty = "SPOUSE_OF" THEN rec.store ELSE created)
                        /\ resp' = [op |-> "tree_add_rel", status |-> 200, type |-> ty,
                                    report |-> IF ty = "SPOUSE_OF" THEN rec.report ELSE NoReport]

\* DELETE /api/trees/{tree_id}/relationships/{rel_id}
tree_delete_rel(u, t, e) ==
    LET gate == require_role(u, t, "editor")
    IN  /\ UNCHANGED aclVars
        /\ IF gate.status # 200
           THEN Denied("tree_delete_rel", gate.status)
           ELSE /\ SetGraph(delete_relationship(Store, e))
                /\ UNCHANGED next_person_id
                /\ resp' = [op |-> "tree_delete_rel", status |-> 200]

\* the request bodies of set-parent
ParentBodies ==
    [kind : {"existing"}, id : IssuedIds, name : {""}]
        \cup [kind : {"new"}, id : {0}, name : Names]
        \cup [kind : {"empty"}, id : {0}, name : {""}]

\* PUT /api/trees/{tree_id}/people/{person_id}/parent
tree_set_parent(u, t, person_id, body) ==
    LET gate == require_role(u, t, "editor")
        S1   == delete_parent_relationships(Store, get_parents(rels, person_id), person_id)
        S2   == create_person(S1, next_person_id, body.name, "U", "", t)
    IN  /\ body.kind = "new" => next_person_id <= MaxPersons
        /\ UNCHANGED aclVars
        /\ IF gate.status # 200
           THEN Denied("tree_set_parent", gate.status)
           ELSE CASE body.kind = "existing" /\ ~person_found(S1, body.id, t) ->
                       /\ SetGraph(S1)
                       /\ UNCHANGED next_person_id
                       /\ resp' = [op |-> "tree_set_parent", status |-> 404]
                  [] body.kind = "existing" /\ person_found(S1, body.id, t)
                                            /\ body.id = person_id ->
                       /\ SetGraph(S1)
                       /\ UNCHANGED next_person_id
                       /\ resp' = [op |-> "tree_set_parent", status |-> 400]
                  [] body.kind = "existing" /\ person_found(S1, body.id, t)
                                            /\ body.id # person_id ->
                       /\ SetGraph(create_relationship(S1, body.id, person_id, "PARENT_OF"))
                       /\ UNCHANGED next_person_id
                       /\ resp' = [op |-> "tree_set_parent", status |-> 200]
                  [] body.kind = "new" ->
                       /\ SetGraph(create_relationship(S2, next_person_id, person_id, "PARENT_OF"))
                       /\ next_person_id' = next_person_id + 1
                       /\ resp' = [op |-> "tree_set_parent", status |-> 200]
                  [] body.kind = "empty" ->
                       /\ SetGraph(S1)
                       /\ UNCHANGED next_person_id
                       /\ resp' = [op |-> "tree_set_parent", status |-> 400]

\* ------------------------------------------------------------------------
\* Specification of the tree-scoped endpoints: tree t1 is owned by u1 and
\* shared read-only with u2; the graph starts empty
\* ------------------------------------------------------------------------
Init ==
    /\ trees = {"t1"}
    /\ tree_ids_issued = {"t1"}
    /\ groups = <<>>
    /\ owns = {[user |-> "u1", tree |-> "t1"]}
    /\ can_access = {[user |-> "u2", tree |-> "t1", role |-> "viewer"]}
    /\ member_of = {}
    /\ group_can_access = {}
    /\ resp = NoResp
    /\ InitAccounts
    /\ InitEnv
    /\ InitGraphEmpty

Next ==
    \/ \E u \in Users, t \in trees, n \in Names : tree_add_person(u, t, n)
    \/ \E u \in Users, t \in trees, id \in IssuedIds : tree_delete_person(u, t, id)
    \/ \E u \in Users, t \in trees, f \in IssuedIds, c \in IssuedIds, ty \in RelTypes :
          BagCardinality(rels) < MaxRels /\ tree_add_rel(u, t, f, c, ty)
    \/ \E u \in Users, t \in trees, e \in BagToSet(rels) : tree_delete_rel(u, t, e)
    \/ \E u \in Users, t \in trees, id \in IssuedIds, body \in ParentBodies :
          BagCardinality(rels) < MaxRels /\ tree_set_parent(u, t, id, body)

Spec == Init /\ [][Next]_vars

\* ------------------------------------------------------------------------
\* Specification of a family: two partners without a spouse edge and up to
\* MaxChildren children, each with any name and any of the partners as
\* parents (every such graph is built by add-person, add-relationship and
\* delete-relationship requests); the owner then requests spouse edges from
\* a partner to anyone
\* ------------------------------------------------------------------------
NewPerson(name, t) ==
    [display_name |-> name, sex |-> "U", notes |-> "", birth_date |-> "",
     death_date |-> "", is_deceased |-> FALSE, tree_id |-> t]

FamilyBase ==
    /\ trees = {"t1"}
    /\ tree_ids_issued = {"t1"}
    /\ groups = <<>>
    /\ owns = {[user |-> "u1", tree |-> "t1"]}
    /\ can_access = {[user |-> "u2", tree |-> "t1", role |-> "viewer"]}
    /\ member_of = {}
    /\ group_can_access = {}
    /\ resp = NoResp
    /\ InitAccounts
    /\ comments = <<>>
    /\ \E k \in 0..MaxChildren :
          LET kids == {Cardinality(Adults) + i : i \in 1..k}
          IN  /\ next_person_id = Cardinality(Adults) + k + 1
              /\ \E nm \in [kids -> Names], par \in [kids -> SUBSET Adults] :
                    /\ people = [x \in Adults \cup kids |->
                                   NewPerson(IF x \in Adults THEN AdultName ELSE nm[x], "t1")]
                    /\ rels = SetToBag({Edge(a, c, "PARENT_OF") :
                                           a \in Adults, c \in kids} \cap
                                       {e \in [from : Adults, to : kids, type : {"PARENT_OF"}] :
                                           e.from \in par[e.to]})

InitFamily == FamilyBase /\ InitEnv

NextFamily ==
    \E u \in {o.user : o \in owns}, t \in trees, f \in Adults, c \in DOMAIN people :
        tree_add_rel(u, t, f, c, "SPOUSE_OF")

SpecFamily == InitFamily /\ [][NextFamily]_vars

\* ------------------------------------------------------------------------
\* Specification of the crud layer around merge: three persons, edges and
\* comments created by direct crud calls, then merges
\* ------------------------------------------------------------------------
\* create_comment(person_id, tree_id, author_id, ...): a PersonComment node
create_comment(S, id, person_id, tree_id, author_id) ==
    [S EXCEPT !.comments =
        [c \in DOMAIN S.comments \cup {id} |->
            IF c = id
            THEN [person_id |-> person_id, tree_id |-> tree_id, author_id |-> author_id]
            ELSE S.comments[c]]]

\* list_comments(person_id): the ids of the comments on the person
list_comments(C, person_id) == {c \in DOMAIN C : C[c].person_id = person_id}

call_create_relationship(f, t, ty) ==
    /\ BagCardinality(rels) + Cardinality(DOMAIN comments) < MaxMergeItems
    /\ SetGraph(create_relationship(Store, f, t, ty))
    /\ resp' = [op |-> "create_relationship", status |-> 200]
    /\ UNCHANGED next_person_id
    /\ UNCHANGED aclVars

call_create_comment(person_id, author_id) ==
    LET free == (1..MaxMergeItems) \ DOMAIN comments
    IN  /\ BagCardinality(rels) + Cardinality(DOMAIN comments) < MaxMergeItems
        /\ person_id \in DOMAIN people
        /\ SetGraph(create_comment(Store, CHOOSE c \in free : \A d \in free : c <= d,
                                   person_id, people[person_id].tree_id, author_id))
        /\ resp' = [op |-> "create_comment", status |-> 200]
        /\ UNCHANGED next_person_id
        /\ UNCHANGED aclVars

\* the response also records what the call found on remove: its comments and
\* its edges
call_merge_person_into(keep, remove) ==
    /\ SetGraph(merge_person_into(Store, keep, remove))
    /\ resp' = [op |-> "merge_person_into", status |-> 200, keep |-> keep, remove |-> remove,
                found_comments |-> list_comments(comments, remove),
                found_edges |-> {e \in BagToSet(rels) : e.from = remove \/ e.to = remove}]
    /\ UNCHANGED next_person_id
    /\ UNCHANGED aclVars

InitMerge ==
    /\ trees = {"t1"}
    /\ tree_ids_issued = {"t1"}
    /\ groups = <<>>
    /\ owns = {[user |-> "u1", tree |-> "t1"]}
    /\ can_access = {}
    /\ member_of = {}
    /\ group_can_access = {}
    /\ resp = NoResp
    /\ InitAccounts
    /\ InitEnv
    /\ people = [x \in MergePersons |-> NewPerson(AdultName, "t1")]
    /\ next_person_id = Cardinality(MergePersons) + 1
    /\ rels = EmptyBag
    /\ comments = <<>>

NextMerge ==
    \/ \E f \in DOMAIN people, t \in DOMAIN people, ty \in RelTypes :
          call_create_relationship(f, t, ty)
    \/ \E id \in DOMAIN people : call_create_comment(id, "u1")
    \/ \E keep \in MergePersons, remove \in MergePersons : call_merge_person_into(keep, remove)

SpecMerge == InitMerge /\ [][NextMerge]_vars

\* ------------------------------------------------------------------------
\* Access-control claims
\* ------------------------------------------------------------------------
IsOwner(u, t) == \E o \in owns : o.user = u /\ o.tree = t

\* every role the user holds on the tree through a direct or a group grant
GrantedRoles(u, t) ==
    {g.role : g \in DirectRows(u, t)} \cup {pr[2].role : pr \in GroupRows(u, t)}

\* C4: require_role answers 404 whenever the effective role is none (for
\* every minimum role a caller passes), 403 when the role is not none but
\* ranks below the minimum, and otherwise returns the effective role; the
\* call writes nothing.
C4_RequireRoleOutcome ==
    [][resp'.op = "require_role" =>
          LET role == get_user_role(resp'.user, resp'.tree)
              min  == resp'.min_role
          IN  /\ role = "none" => resp'.status = 404
              /\ (role # "none" /\ Rank(role) < Rank(min)) => resp'.status = 403
              /\ (role # "none" /\ Rank(role) >= Rank(min)) =>
                     (resp'.status = 200 /\ resp'.role = role)
              /\ UNCHANGED aclVars
              /\ UNCHANGED graphVars]_vars

\* a viewer asked for owner is answered 403
C4_Witness ==
    /\ resp.op = "require_role"
    /\ resp.status = 403
    /\ resp.role = "viewer"
    /\ resp.min_role = "owner"

\* C5: for a user who is not the owner, get_user_role is the highest-ranked
\* role over the direct grant and the grants of every group the user is in,
\* and it is none exactly when there is no such grant.
C5_BestOfAllSources ==
    \A u \in Users, t \in TreeIds :
        ~IsOwner(u, t) =>
            LET roles == GrantedRoles(u, t)
                role  == get_user_role(u, t)
            IN  /\ (role = "none") <=> (roles = {})
                /\ roles # {} => (role \in roles /\ \A r \in roles : Rank(r) <= Rank(role))

\* a non-owner with a direct viewer grant and an editor grant through a group
\* was resolved to editor
C5_Witness ==
    /\ resp.op = "require_role"
    /\ ~IsOwner(resp.user, resp.tree)
    /\ \E g \in DirectRows(resp.user, resp.tree) : g.role = "viewer"
    /\ \E pr \in GroupRows(resp.user, resp.tree) : pr[2].role = "editor"
    /\ resp.role = "editor"

\* C6: get_user_role is owner exactly for the user that holds the ownership
\* edge of the tree, whatever grants that user or anyone else has.
C6_OwnerIffOwns ==
    \A u \in Users, t \in TreeIds :
        (get_user_role(u, t) = "owner") <=> IsOwner(u, t)

\* the owner, who also holds a direct grant and a group grant, was resolved
\* to owner
C6_Witness ==
    /\ resp.op = "require_role"
    /\ IsOwner(resp.user, resp.tree)
    /\ DirectRows(resp.user, resp.tree) # {}
    /\ GroupRows(resp.user, resp.tree) # {}
    /\ resp.role = "owner"

\* ------------------------------------------------------------------------
\* Relationship claims
\* ------------------------------------------------------------------------
MayEdit(u, t) == require_role(u, t, "editor").status = 200

ParentEdges(R, c) == CountIn(R, {e \in BagToSet(R) : e.type = "PARENT_OF" /\ e.to = c})

SpouseEdges(R, p) ==
    CountIn(R, {e \in BagToSet(R) : e.type = "SPOUSE_OF" /\ (e.from = p \/ e.to = p)})

\* C1: after any sequence of accepted mutations every person has at most two
\* incoming PARENT_OF edges and at most one SPOUSE_OF edge, counting both
\* stored directions.
C1_CardinalityInvariant ==
    \A p \in DOMAIN people : ParentEdges(rels, p) <= 2 /\ SpouseEdges(rels, p) <= 1

\* C7: an authorized request to create PARENT_OF(parent, child) between two
\* different existing persons, not yet parent and child, is accepted, and the edge written, when the child has
\* zero or one parent; it is rejected with no write when the child has two.
C7_ParentLimit ==
    [][\A u \in Users, t \in TreeIds, f \in DOMAIN people, c \in DOMAIN people :
          (/\ resp'.op = "tree_add_rel"
           /\ MayEdit(u, t)
           /\ f # c
           /\ ~BagIn(Edge(f, c, "PARENT_OF"), rels)
           /\ tree_add_rel(u, t, f, c, "PARENT_OF"))
          => /\ ParentEdges(rels, c) <= 1 =>
                   /\ resp'.status = 200
                   /\ rels' = rels (+) SetToBag({Edge(f, c, "PARENT_OF")})
             /\ ParentEdges(rels, c) >= 2 =>
                   /\ resp'.status = 400
                   /\ UNCHANGED graphVars]_vars

\* C8: an authorized request to create SPOUSE_OF(a, b) is rejected when a or
\* b already has a SPOUSE_OF edge in either stored direction; the rejected
\* request writes no edge and runs no reconciliation (the graph is unchanged
\* and the response reports nothing merged or shared).
C8_SpouseLimit ==
    [][\A u \in Users, t \in TreeIds, a \in DOMAIN people, b \in DOMAIN people :
          (/\ resp'.op = "tree_add_rel"
           /\ MayEdit(u, t)
           /\ (SpouseEdges(rels, a) >= 1 \/ SpouseEdges(rels, b) >= 1)
           /\ tree_add_rel(u, t, a, b, "SPOUSE_OF"))
          => /\ resp'.status = 400
             /\ resp'.report = NoReport
             /\ UNCHANGED graphVars]_vars

C8_Witness ==
    /\ resp.op = "tree_add_rel"
    /\ resp.status = 400
    /\ resp.type = "SPOUSE_OF"
    /\ \E e \in BagToSet(rels) : e.type = "SPOUSE_OF" /\ e.from # e.to

\* the children of a parent that carry a name, read from the current graph
ChildrenNamed(parent, name) ==
    {c \in DOMAIN people :
        BagIn(Edge(parent, c, "PARENT_OF"), rels) /\ people[c].display_name = name}

\* a and b are two persons, neither of them listed as a child of the other
\* or of themselves
ProperCouple(a, b) ==
    /\ a # b
    /\ \A p \in {a, b}, q \in {a, b} : ~BagIn(Edge(p, q, "PARENT_OF"), rels)

\* C9: when SPOUSE_OF(a, b) is created for a proper couple, a has one child
\* ca named X and b has one child cb named X, a different record, the two are
\* merged with ca kept and cb removed: afterwards ca exists and cb does not,
\* ca has a PARENT_OF edge from a and one from b and is the only child of a
\* or b named X, the response's merged list has exactly one entry for X,
\* {X, ca, cb}, and X is in neither shared list.
C9_SameNameMerged ==
    [][\A u \in Users, t \in TreeIds, a \in DOMAIN people, b \in DOMAIN people :
          (/\ resp'.op = "tree_add_rel"
           /\ resp'.status = 200
           /\ ProperCouple(a, b)
           /\ tree_add_rel(u, t, a, b, "SPOUSE_OF"))
          => \A ca \in DOMAIN people, cb \in DOMAIN people, x \in Names :
                (/\ ca # cb
                 /\ ChildrenNamed(a, x) = {ca}
                 /\ ChildrenNamed(b, x) = {cb})
                => /\ ca \in DOMAIN people'
                   /\ cb \notin DOMAIN people'
                   /\ CountIn(rels', {Edge(a, ca, "PARENT_OF")} \cap BagToSet(rels')) = 1
                   /\ CountIn(rels', {Edge(b, ca, "PARENT_OF")} \cap BagToSet(rels')) = 1
                   /\ {m \in resp'.report.merged : m.name = x} =
                         {[name |-> x, kept_id |-> ca, removed_id |-> cb]}
                   /\ {c \in DOMAIN people' :
                          /\ people'[c].display_name = x
                          /\ \/ BagIn(Edge(a, c, "PARENT_OF"), rels')
                             \/ BagIn(Edge(b, c, "PARENT_OF"), rels')} = {ca}
                   /\ x \notin resp'.report.shared_with_a
                   /\ x \notin resp'.report.shared_with_b]_vars

C9_Witness ==
    /\ resp.op = "tree_add_rel"
    /\ resp.status = 200
    /\ \E m \in resp.report.merged :
          /\ m.kept_id \in DOMAIN people
          /\ m.removed_id \notin DOMAIN people
          /\ \A p \in Adults : BagIn(Edge(p, m.kept_id, "PARENT_OF"), rels)
    /\ BagIn(Edge(1, 2, "SPOUSE_OF"), rels)

\* C10: when SPOUSE_OF(a, b) is created for a proper couple, every child of a
\* whose name no child of b carries has exactly one PARENT_OF edge from b
\* afterwards and its name is in shared_with_b; symmetrically every child of
\* b whose name no child of a carries has exactly one PARENT_OF edge from a
\* and its name is in shared_with_a.
C10_OneSidedShared ==
    [][\A u \in Users, t \in TreeIds, a \in DOMAIN people, b \in DOMAIN people :
          (/\ resp'.op = "tree_add_rel"
           /\ resp'.status = 200
           /\ ProperCouple(a, b)
           /\ tree_add_rel(u, t, a, b, "SPOUSE_OF"))
          => \A c \in DOMAIN people :
                /\ (/\ BagIn(Edge(a, c, "PARENT_OF"), rels)
                     /\ ChildrenNamed(b, people[c].display_name) = {})
                    => /\ CountIn(rels', {Edge(b, c, "PARENT_OF")} \cap BagToSet(rels')) = 1
                       /\ people[c].display_name \in resp'.report.shared_with_b
                /\ (/\ BagIn(Edge(b, c, "PARENT_OF"), rels)
                     /\ ChildrenNamed(a, people[c].display_name) = {})
                    => /\ CountIn(rels', {Edge(a, c, "PARENT_OF")} \cap BagToSet(rels')) = 1
                       /\ people[c].display_name \in resp'.report.shared_with_a]_vars

C10_Witness ==
    /\ resp.op = "tree_add_rel"
    /\ resp.status = 200
    /\ resp.report.shared_with_a # {}
    /\ resp.report.shared_with_b # {}
    /\ BagIn(Edge(1, 2, "SPOUSE_OF"), rels)
    /\ \A c \in DOMAIN people \ Adults :
          \A p \in Adults : CountIn(rels, {Edge(p, c, "PARENT_OF")} \cap BagToSet(rels)) = 1

\* ------------------------------------------------------------------------
\* Merge claims
\* ------------------------------------------------------------------------
\* the merge call of this step acted on two distinct existing persons
MergeStep(keep, remove) ==
    /\ keep # remove
    /\ keep \in DOMAIN people
    /\ remove \in DOMAIN people
    /\ resp'.op = "merge_person_into"
    /\ call_merge_person_into(keep, remove)

C3_EdgesSurviveMerge ==
    [][\A keep \in MergePersons, remove \in MergePersons :
          MergeStep(keep, remove)
          => /\ ~person_found([people |-> people', rels |-> rels', comments |-> comments'],
                              remove, "")
             /\ \A e \in BagToSet(rels') : e.from # remove /\ e.to # remove
             /\ \A e \in BagToSet(rels) :
                   /\ (e.from = remove /\ e.to \notin {keep, remove})
                         => edge_exists(rels', keep, e.to, e.type)
                   /\ (e.to = remove /\ e.from \notin {keep, remove})
                         => edge_exists(rels', e.from, keep, e.type)]_vars

C3_Witness ==
    /\ resp.op = "merge_person_into"
    /\ resp.keep \in DOMAIN people
    /\ resp.remove \notin DOMAIN people
    /\ \E e \in resp.found_edges, f \in resp.found_edges :
          /\ e.from = resp.remove /\ e.to \notin {resp.keep, resp.remove}
          /\ f.to = resp.remove /\ f.from \notin {resp.keep, resp.remove}
          /\ BagIn(Edge(resp.keep, e.to, e.type), rels)
          /\ BagIn(Edge(f.from, resp.keep, f.type), rels)

\* ------------------------------------------------------------------------
\* Legacy unscoped endpoints (app/main.py): any signed-in user may call
\* them; they take no tree id and call require_role nowhere
\* ------------------------------------------------------------------------
\* POST /relationships
add_rel(u, f, c, ty) ==
    LET created == create_relationship(Store, f, c, ty)
        rec     == merge_spouse_children(created, f, c)
    IN  /\ UNCHANGED aclVars
        /\ UNCHANGED next_person_id
        /\ IF validate_new_rel(rels, f, c, ty) # 200
           THEN /\ UNCHANGED <<people, rels, comments>>
                /\ resp' = [op |-> "add_rel", status |-> 400, user |-> u]
           ELSE /\ SetGraph(IF ty = "SPOUSE_OF" THEN rec.store ELSE created)
                /\ resp' = [op |-> "add_rel", status |-> 200, user |-> u]

\* DELETE /people/{person_id}
legacy_delete_person(u, id) ==
    /\ SetGraph(delete_person(Store, id, ""))
    /\ resp' = [op |-> "delete_person", status |-> 200, user |-> u]
    /\ UNCHANGED next_person_id
    /\ UNCHANGED aclVars

\* DELETE /relationships/{rel_id}
delete_rel(u, e) ==
    /\ SetGraph(delete_relationship(Store, e))
    /\ resp' = [op |-> "delete_rel", status |-> 200, user |-> u]
    /\ UNCHANGED next_person_id
    /\ UNCHANGED aclVars

\* ------------------------------------------------------------------------
\* Specification of the gate: tree t1 is owned by u1; u2 holds no grant, a
\* viewer grant or an editor grant; both users call the tree-scoped and the
\* legacy endpoints
\* ------------------------------------------------------------------------
InitGate ==
    /\ trees = {"t1"}
    /\ tree_ids_issued = {"t1"}
    /\ groups = <<>>
    /\ owns = {[user |-> "u1", tree |-> "t1"]}
    /\ can_access \in {{}} \cup {{[user |-> "u2", tree |-> "t1", role |-> r]} : r \in GrantRoles}
    /\ member_of = {}
    /\ group_can_access = {}
    /\ resp = NoResp
    /\ InitAccounts
    /\ InitEnv
    /\ InitGraphEmpty

\* the requests of one caller
RequestBy(u) ==
    \/ \E t \in trees, n \in Names : tree_add_person(u, t, n)
    \/ \E t \in trees, id \in IssuedIds : tree_delete_person(u, t, id)
    \/ \E t \in trees, f \in IssuedIds, c \in IssuedIds, ty \in RelTypes :
          BagCardinality(rels) < MaxGateRels /\ tree_add_rel(u, t, f, c, ty)
    \/ \E t \in trees, e \in BagToSet(rels) : tree_delete_rel(u, t, e)
    \/ \E f \in IssuedIds, c \in IssuedIds, ty \in RelTypes :
          BagCardinality(rels) < MaxGateRels /\ add_rel(u, f, c, ty)
    \/ \E id \in IssuedIds : legacy_delete_person(u, id)
    \/ \E e \in BagToSet(rels) : delete_rel(u, e)

NextGate == \E u \in Users : RequestBy(u)

SpecGate == InitGate /\ [][NextGate]_vars

\* ------------------------------------------------------------------------
\* Gate claims
\* ------------------------------------------------------------------------
\* C11: no request changes the persons, relationships or comments of a tree
\* unless require_role passed for its caller on that tree with at least
\* editor: a request of a caller whose role is none or viewer leaves the
\* graph as it was.
C11_WritesBehindGate ==
    [][\A u \in Users :
          (~MayEdit(u, "t1") /\ RequestBy(u)) => UNCHANGED <<people, rels, comments>>]_vars

\* ------------------------------------------------------------------------
\* Tree sharing endpoints (app/main.py, "owner only")
\* ------------------------------------------------------------------------
ShareDenied(op, u, status) ==
    /\ resp' = [op |-> op, status |-> status, user |-> u]
    /\ UNCHANGED aclVars
    /\ UNCHANGED graphVars

\* get_tree_owner_id: the user of the tree's OWNS edge
get_tree_owner_id(t) == {o.user : o \in {x \in owns : x.tree = t}}

\* POST /api/trees/{tree_id}/members
tree_add_member(u, t, target, role) ==
    LET gate == require_role(u, t, "owner")
    IN  IF gate.status # 200
        THEN ShareDenied("add_member", u, gate.status)
        ELSE IF target \in get_tree_owner_id(t)
             THEN ShareDenied("add_member", u, 400)
             ELSE grant_user_access(t, target, role)

\* variant: an editor passes the gate of PUT .../members/{uid}
update_member_EditorMayShare(u, t, uid, role) ==
    LET gate == require_role(u, t, "editor")
    IN  IF gate.status # 200
        THEN ShareDenied("update_member", u, gate.status)
        ELSE update_user_access(t, uid, role)

\* PUT /api/trees/{tree_id}/members/{uid}
update_member(u, t, uid, role) ==
    LET gate == require_role(u, t, "owner")
    IN  IF gate.status # 200
        THEN ShareDenied("update_member", u, gate.status)
        ELSE update_user_access(t, uid, role)

\* DELETE /api/trees/{tree_id}/members/{uid}
tree_remove_member(u, t, uid) ==
    LET gate == require_role(u, t, "owner")
    IN  IF gate.status # 200
        THEN ShareDenied("remove_member", u, gate.status)
        ELSE revoke_user_access(t, uid)

\* POST /api/trees/{tree_id}/groups
grant_group(u, t, g, role) ==
    LET gate == require_role(u, t, "owner")
    IN  IF gate.status # 200
        THEN ShareDenied("grant_group", u, gate.status)
        ELSE IF g \notin DOMAIN groups
             THEN ShareDenied("grant_group", u, 404)
             ELSE grant_group_access(t, g, role)

\* PUT /api/trees/{tree_id}/groups/{gid}
tree_update_group_access(u, t, g, role) ==
    LET gate == require_role(u, t, "owner")
    IN  IF gate.status # 200
        THEN ShareDenied("update_group_access", u, gate.status)
        ELSE update_group_access(t, g, role)

\* DELETE /api/trees/{tree_id}/groups/{gid}
revoke_group(u, t, g) ==
    LET gate == require_role(u, t, "owner")
    IN  IF gate.status # 200
        THEN ShareDenied("revoke_group", u, gate.status)
        ELSE revoke_group_access(t, g)

\* ------------------------------------------------------------------------
\* Specification of sharing: tree t1 is owned by u1, group g1 exists (g2
\* does not) with any membership; every user calls the sharing endpoints
\* ------------------------------------------------------------------------
InitShare ==
    /\ trees = {"t1"}
    /\ tree_ids_issued = {"t1"}
    /\ groups = [g \in {"g1"} |-> [created_by |-> "u1"]]
    /\ owns = {[user |-> "u1", tree |-> "t1"]}
    /\ can_access = {}
    /\ member_of \in SUBSET {[user |-> u, group |-> "g1"] : u \in Users}
    /\ group_can_access = {}
    /\ resp = NoResp
    /\ InitAccounts
    /\ InitEnv
    /\ InitGraphEmpty

\* the sharing requests of one caller
ShareRequestBy(u) ==
    \/ \E t \in trees, x \in Users, r \in GrantRoles : tree_add_member(u, t, x, r)
    \/ \E t \in trees, x \in Users, r \in GrantRoles : update_member(u, t, x, r)
    \/ \E t \in trees, x \in Users : tree_remove_member(u, t, x)
    \/ \E t \in trees, g \in GroupIds, r \in GrantRoles : grant_group(u, t, g, r)
    \/ \E t \in trees, g \in GroupIds, r \in GrantRoles : tree_update_group_access(u, t, g, r)
    \/ \E t \in trees, g \in GroupIds : revoke_group(u, t, g)

NextShare == \E u \in Users : ShareRequestBy(u)

SpecShare == InitShare /\ [][NextShare]_vars

\* ------------------------------------------------------------------------
\* Sharing claims
\* ------------------------------------------------------------------------
\* C12: a request to grant, update or revoke a direct grant or a group grant
\* on a tree takes effect only when the caller's effective role on the tree
\* is owner; for a caller whose role is editor, viewer or none the request
\* fails (403, or 404 for none) and the grants stay as they were.
C12_OnlyOwnerShares ==
    [][\A u \in Users :
          (get_user_role(u, "t1") # "owner" /\ ShareRequestBy(u))
          => /\ resp'.status = (IF get_user_role(u, "t1") = "none" THEN 404 ELSE 403)
             /\ UNCHANGED <<can_access, group_can_access, owns, member_of>>]_vars

\* an editor's request to change a member's role was refused, the grants
\* the owner made are in place
C12_Witness ==
    /\ resp.op = "update_member" /\ resp.status = 403
    /\ get_user_role(resp.user, "t1") = "editor"
    /\ can_access # {}

\* ------------------------------------------------------------------------
\* Accounts, tree creation and deletion, start-up migration
\* (app/auth.py, app/trees.py, app/main.py)
\* ------------------------------------------------------------------------
Emails == {"a@x", "A@x", " a@x ", "b@x"}

\* email.strip().lower()
NormalizeEmail(e) == IF e \in {"A@x", " a@x "} THEN "a@x" ELSE e

\* get_user_by_email: the users stored under the normalised e-mail
get_user_by_email(U, email) == {x \in DOMAIN U : U[x].email = NormalizeEmail(email)}

\* variant: the e-mail is stored and compared as it was typed
create_user_AsTyped(U, u, email, is_admin) ==
    IF \E x \in DOMAIN U : U[x].email = email
    THEN [users |-> U, error |-> TRUE]
    ELSE [users |-> [x \in DOMAIN U \cup {u} |->
                        IF x = u THEN [email |-> email, is_admin |-> is_admin] ELSE U[x]],
          error |-> FALSE]

\* create_user: ValueError when the normalised e-mail is taken, else a new
\* User node holding the normalised e-mail
create_user(U, u, email, is_admin) ==
    IF get_user_by_email(U, email) # {}
    THEN [users |-> U, error |-> TRUE]
    ELSE [users |-> [x \in DOMAIN U \cup {u} |->
                        IF x = u THEN [email |-> NormalizeEmail(email), is_admin |-> is_admin]
                        ELSE U[x]],
          error |-> FALSE]

\* the id of the tree named 'Default' that the migration creates
DefaultTreeId == "t0"

\* POST /api/auth/register: the first user needs the setup token and becomes
\* admin and owner of every tree that has no owner
register(u, email, token_ok) ==
    LET first   == (Cardinality(DOMAIN users) = 0)
        created == create_user(users, u, email, first)
    IN  /\ u \in Users \ DOMAIN users
        /\ UNCHANGED <<trees, tree_ids_issued, groups, can_access, member_of,
                       group_can_access, share_links>>
        /\ UNCHANGED graphVars
        /\ UNCHANGED envVars
        /\ IF first /\ ~token_ok
           THEN /\ resp' = [op |-> "register", status |-> 403, user |-> u]
                /\ UNCHANGED <<users, owns>>
           ELSE IF created.error
                THEN /\ resp' = [op |-> "register", status |-> 400, user |-> u]
                     /\ UNCHANGED <<users, owns>>
                ELSE /\ users' = created.users
                     /\ owns' = IF first
                                THEN owns \cup {[user |-> u, tree |-> t] :
                                                   t \in {x \in trees : get_tree_owner_id(x) = {}}}
                                ELSE owns
                     /\ resp' = [op |-> "register", status |-> 200, user |-> u]

\* _run_migration, at start-up: persons without a tree are put into the tree
\* named 'Default', which is created (without an owner) when it is missing
run_migration ==
    LET unmigrated == {p \in DOMAIN people : people[p].tree_id = ""}
    IN  /\ DefaultTreeId \in trees \/ DefaultTreeId \notin tree_ids_issued
        /\ resp' = [op |-> "run_migration", status |-> 200]
        /\ UNCHANGED <<groups, owns, can_access, member_of, group_can_access, users>>
        /\ UNCHANGED <<next_person_id, rels, comments>>
        /\ UNCHANGED envVars
        /\ IF unmigrated = {}
           THEN UNCHANGED <<trees, tree_ids_issued, people, share_links>>
           ELSE /\ trees' = trees \cup {DefaultTreeId}
                /\ tree_ids_issued' = tree_ids_issued \cup {DefaultTreeId}
                /\ people' = [p \in DOMAIN people |->
                                IF p \in unmigrated
                                THEN [people[p] EXCEPT !.tree_id = DefaultTreeId]
                                ELSE people[p]]
                /\ share_links' = {IF x.tree_id = ""
                                   THEN [x EXCEPT !.tree_id = DefaultTreeId]
                                   ELSE x : x \in share_links}

\* POST /people, by a signed-in user: the person belongs to no tree
add_person(u, name) ==
    /\ u \in DOMAIN users
    /\ next_person_id <= MaxLegacyPersons
    /\ SetGraph(create_person(Store, next_person_id, name, "U", "", ""))
    /\ next_person_id' = next_person_id + 1
    /\ resp' = [op |-> "add_person", status |-> 200, user |-> u]
    /\ UNCHANGED aclVars

\* POST /api/trees, by a signed-in user
api_create_tree(u, t) == u \in DOMAIN users /\ create_tree(t, u)

\* variant: the tree's share links are left behind
delete_tree_KeepShareLinks(t) ==
    LET gone == {p \in DOMAIN people : people[p].tree_id = t}
    IN  /\ comments' = [c \in {x \in DOMAIN comments : comments[x].tree_id # t} |-> comments[c]]
        /\ people' = [p \in DOMAIN people \ gone |-> people[p]]
        /\ rels' = [e \in {x \in BagToSet(rels) : x.from \notin gone /\ x.to \notin gone} |->
                      rels[e]]
        /\ trees' = trees \ {t}
        /\ owns' = {o \in owns : o.tree # t}
        /\ can_access' = {g \in can_access : g.tree # t}
        /\ group_can_access' = {x \in group_can_access : x.tree # t}
        /\ resp' = [op |-> "delete_tree", status |-> 200]
        /\ UNCHANGED <<tree_ids_issued, groups, member_of, users, next_person_id, share_links>>
        /\ UNCHANGED envVars

\* trees.delete_tree: the tree's comments, persons (with their edges), share
\* links and the tree node (with its OWNS, CAN_ACCESS, GROUP_CAN_ACCESS edges)
delete_tree(t) ==
    LET gone == {p \in DOMAIN people : people[p].tree_id = t}
    IN  /\ comments' = [c \in {x \in DOMAIN comments : comments[x].tree_id # t} |-> comments[c]]
        /\ people' = [p \in DOMAIN people \ gone |-> people[p]]
        /\ rels' = [e \in {x \in BagToSet(rels) : x.from \notin gone /\ x.to \notin gone} |->
                      rels[e]]
        /\ share_links' = {x \in share_links : x.tree_id # t}
        /\ trees' = trees \ {t}
        /\ owns' = {o \in owns : o.tree # t}
        /\ can_access' = {g \in can_access : g.tree # t}
        /\ group_can_access' = {x \in group_can_access : x.tree # t}
        /\ resp' = [op |-> "delete_tree", status |-> 200]
        /\ UNCHANGED <<tree_ids_issued, groups, member_of, users, next_person_id>>
        /\ UNCHANGED envVars

\* DELETE /api/trees/{tree_id}
api_delete_tree(u, t) ==
    LET gate == require_role(u, t, "owner")
    IN  IF gate.status # 200
        THEN ShareDenied("delete_tree", u, gate.status)
        ELSE delete_tree(t)

\* ------------------------------------------------------------------------
\* Specification of ownership: a database without users, with or without a
\* person from before trees existed; users register, the migration runs,
\* signed-in users create persons and trees, share and delete trees
\* ------------------------------------------------------------------------
InitOwn ==
    /\ trees = {}
    /\ tree_ids_issued = {}
    /\ groups = <<>>
    /\ owns = {}
    /\ can_access = {}
    /\ member_of = {}
    /\ group_can_access = {}
    /\ users = <<>>
    /\ share_links = {}
    /\ InitEnv
    /\ resp = [op |-> "none", status |-> 0]
    /\ rels = EmptyBag
    /\ comments = <<>>
    /\ \/ people = <<>> /\ next_person_id = 1
       \/ people = [x \in {1} |-> NewPerson(AdultName, "")] /\ next_person_id = 2

NextOwn ==
    \/ \E u \in Users, e \in Emails, ok \in BOOLEAN : register(u, e, ok)
    \/ run_migration
    \/ \E u \in Users : add_person(u, AdultName)
    \/ \E u \in Users, t \in TreeIds : api_create_tree(u, t)
    \/ \E u \in DOMAIN users, t \in trees : api_delete_tree(u, t)
    \/ \E u \in DOMAIN users, t \in trees, x \in DOMAIN users, r \in GrantRoles :
          tree_add_member(u, t, x, r)
    \/ \E u \in DOMAIN users, t \in trees, x \in DOMAIN users : tree_remove_member(u, t, x)
    \/ \E u \in DOMAIN users, t \in trees, g \in GroupIds : grant_group(u, t, g, "editor")
    \/ \E u \in DOMAIN users : create_group("g1", u)
    \/ \E g \in DOMAIN groups, u \in DOMAIN users : add_member(g, u)

SpecOwn == InitOwn /\ [][NextOwn]_vars

\* ------------------------------------------------------------------------
\* Ownership claims
\* ------------------------------------------------------------------------
Owners(t) == {o.user : o \in {x \in owns : x.tree = t}}

Relations == {"Child", "Spouse"}

Row == [p1 : Names, relation : Relations, p2 : Names]

Unambiguous(rows) ==
    \A i \in DOMAIN rows, j \in DOMAIN rows : rows[i].p1 = rows[j].p1 => rows[i].p2 = rows[j].p2

CsvFiles ==
    {rows \in UNION {[1..n -> Row] : n \in 1..MaxRows} : Unambiguous(rows)}

\* find_person_by_name(display_name, tree_id): the ids of the matching persons
find_person_by_name(S, name, tree_id) ==
    {p \in DOMAIN S.people : S.people[p].display_name = name /\ S.people[p].tree_id = tree_id}

\* clear_all(tree_id): the tree's persons with their edges and comments
clear_all(S, tree_id) ==
    LET gone == {p \in DOMAIN S.people : S.people[p].tree_id = tree_id}
    IN  [people   |-> [p \in DOMAIN S.people \ gone |-> S.people[p]],
         rels     |-> [e \in {x \in BagToSet(S.rels) : x.from \notin gone /\ x.to \notin gone} |->
                             S.rels[e]],
         comments |-> [c \in {x \in DOMAIN S.comments : S.comments[x].person_id \notin gone} |->
                             S.comments[c]]]

\* passes 1 and 2: get_or_create for each name in turn; a person of that name
\* already in the tree is reused.  X is [store, next_id].
RECURSIVE get_or_create(_, _, _)
get_or_create(X, names, tree_id) ==
    IF names = <<>>
    THEN X
    ELSE IF find_person_by_name(X.store, Head(names), tree_id) # {}
         THEN get_or_create(X, Tail(names), tree_id)
         ELSE get_or_create(
                 [store   |-> create_person(X.store, X.next_id, Head(names), "U", "", tree_id),
                  next_id |-> X.next_id + 1],
                 Tail(names), tree_id)

\* person_registry[name]: the person the import works with under that name
person_registry(S, name, tree_id) == FirstOf(find_person_by_name(S, name, tree_id))

\* the edge a row asks for
RowEdge(S, row, tree_id) ==
    IF row.relation = "Child"
    THEN Edge(person_registry(S, row.p2, tree_id), person_registry(S, row.p1, tree_id), "PARENT_OF")
    ELSE Edge(person_registry(S, row.p1, tree_id), person_registry(S, row.p2, tree_id), "SPOUSE_OF")

\* pass 3: add_edge for each row; created_edges holds the edges this run made
RECURSIVE add_edge(_, _, _, _)
add_edge(S, created_edges, rows, tree_id) ==
    IF rows = <<>>
    THEN S
    ELSE LET e   == RowEdge(S, Head(rows), tree_id)
             rev == Edge(e.to, e.from, e.type)
         IN  IF e \in created_edges \/ (e.type = "SPOUSE_OF" /\ rev \in created_edges)
             THEN add_edge(S, created_edges, Tail(rows), tree_id)
             ELSE add_edge(create_relationship(S, e.from, e.to, e.type),
                           created_edges \cup {e}, Tail(rows), tree_id)

\* import_csv_text: [store, next_id] after the import
import_csv_text(S, next_id, rows, clear_first, tree_id) ==
    LET S1    == IF clear_first THEN clear_all(S, tree_id) ELSE S
        names == [i \in 1..(2 * Len(rows)) |->
                    IF i <= Len(rows) THEN rows[i].p1 ELSE rows[i - Len(rows)].p2]
        X     == get_or_create([store |-> S1, next_id |-> next_id], names, tree_id)
    IN  [store |-> add_edge(X.store, {}, rows, tree_id), next_id |-> X.next_id]

\* POST /api/trees/{tree_id}/import/dataset with one file; the names of the
\* rows need no cleaning afterwards
tree_import_dataset(u, t, rows, combine) ==
    LET gate == require_role(u, t, "editor")
        done == import_csv_text(Store, next_person_id, rows, ~combine, t)
    IN  /\ UNCHANGED aclVars
        /\ IF gate.status # 200
           THEN Denied("tree_import_dataset", gate.status)
           ELSE /\ done.next_id <= MaxPersons + 1
                /\ SetGraph(done.store)
                /\ next_person_id' = done.next_id
                /\ resp' = [op |-> "tree_import_dataset", status |-> 200]

\* ------------------------------------------------------------------------
\* Specification of repeated requests: files are imported into tree t1,
\* relationships are added and persons merged
\* ------------------------------------------------------------------------
NextRetry ==
    \/ \E u \in Users, t \in trees, rows \in CsvFiles, combine \in BOOLEAN :
          BagCardinality(rels) < MaxRels /\ tree_import_dataset(u, t, rows, combine)
    \/ \E u \in Users, t \in trees, f \in DOMAIN people, c \in DOMAIN people, ty \in RelTypes :
          BagCardinality(rels) < MaxRels /\ tree_add_rel(u, t, f, c, ty)
    \/ \E keep \in DOMAIN people, remove \in DOMAIN people : call_merge_person_into(keep, remove)

SpecRetry == Init /\ [][NextRetry]_vars

\* ------------------------------------------------------------------------
\* Idempotence claims
\* ------------------------------------------------------------------------
NoDuplicateEdge(R) == \A e \in BagToSet(R) : R[e] = 1

\* the store after POST .../relationships by an editor
AfterAddRel(S, f, c, ty) ==
    IF validate_new_rel(S.rels, f, c, ty) # 200
    THEN S
    ELSE IF ty = "SPOUSE_OF"
         THEN merge_spouse_children(create_relationship(S, f, c, ty), f, c).store
         ELSE create_relationship(S, f, c, ty)

StoreAfter == [people |-> people', rels |-> rels', comments |-> comments']

\* C14: once a relationship request, a merge or an import (into a tree that
\* is not cleared first) has run on a graph without duplicate edges, running
\* it again with the same arguments leaves the edge set as the first run left
\* it, and no ordered pair of persons has two edges of the same type.
C14_RetryNeverDuplicates ==
    [][NoDuplicateEdge(rels) =>
         /\ \A f \in DOMAIN people, c \in DOMAIN people, ty \in RelTypes :
               tree_add_rel("u1", "t1", f, c, ty)
               => /\ NoDuplicateEdge(rels')
                  /\ AfterAddRel(StoreAfter, f, c, ty).rels = rels'
         /\ \A keep \in DOMAIN people, remove \in DOMAIN people :
               call_merge_person_into(keep, remove)
               => /\ NoDuplicateEdge(rels')
                  /\ merge_person_into(StoreAfter, keep, remove).rels = rels'
         /\ \A rows \in CsvFiles :
               tree_import_dataset("u1", "t1", rows, TRUE)
               => /\ NoDuplicateEdge(rels')
                  /\ import_csv_text(StoreAfter, next_person_id', rows, FALSE, "t1").store.rels
                     = rels']_vars

\* ------------------------------------------------------------------------
\* Merge claims: edge transfer and property reconciliation
\* ------------------------------------------------------------------------
\* C15: the edge transfer of merge(keep, remove) creates no edge from keep to
\* itself, creates no edge between keep and x where an equivalent one exists
\* (for SPOUSE_OF in either direction), and where none exists leaves at most
\* one for the pair, however many edges joined remove and x.
C15_NoSelfNoDuplicate ==
    [][\A keep \in MergePersons, remove \in MergePersons :
          MergeStep(keep, remove)
          => \A ty \in RelTypes :
                /\ CopiesIn(Edge(keep, keep, ty), rels') = CopiesIn(Edge(keep, keep, ty), rels)
                /\ \A x \in DOMAIN people \ {keep, remove} :
                      /\ edge_exists(rels, keep, x, ty)
                            => CopiesIn(Edge(keep, x, ty), rels') = CopiesIn(Edge(keep, x, ty), rels)
                      /\ edge_exists(rels, x, keep, ty)
                            => CopiesIn(Edge(x, keep, ty), rels') = CopiesIn(Edge(x, keep, ty), rels)
                      /\ ~edge_exists(rels, keep, x, ty)
                            => CopiesIn(Edge(keep, x, ty), rels')
                               + (IF ty = "SPOUSE_OF" THEN CopiesIn(Edge(x, keep, ty), rels') ELSE 0)
                               <= 1
                      /\ ~edge_exists(rels, x, keep, ty)
                            => CopiesIn(Edge(x, keep, ty), rels')
                               + (IF ty = "SPOUSE_OF" THEN CopiesIn(Edge(keep, x, ty), rels') ELSE 0)
                               <= 1]_vars

\* a merge found an edge from remove to a third person and an edge joining
\* remove and keep: afterwards keep has one edge to the third person and none
\* to itself
C15_Witness ==
    /\ resp.op = "merge_person_into"
    /\ resp.remove \notin DOMAIN people
    /\ \E e \in resp.found_edges, f \in resp.found_edges :
          /\ e.from = resp.remove /\ e.to \notin {resp.keep, resp.remove}
          /\ {f.from, f.to} = {resp.keep, resp.remove}
          /\ CopiesIn(Edge(resp.keep, e.to, e.type), rels) = 1
          /\ \A ty \in RelTypes : ~BagIn(Edge(resp.keep, resp.keep, ty), rels)

\* ------------------------------------------------------------------------
\* Specification of property reconciliation: two persons of tree t1 whose
\* fields are set or not, each person with values of its own; a person with
\* a death date is deceased; either is merged into the other
\* ------------------------------------------------------------------------
FieldValues ==
    [sex        |-> <<{"U", "M"}, {"U", "F"}>>,
     notes      |-> <<{"", "k"}, {"", "r"}>>,
     birth_date |-> <<{"", "1900"}, {"", "1950"}>>,
     death_date |-> <<{"", "2000"}, {"", "2010"}>>]

InitFields ==
    /\ trees = {"t1"}
    /\ tree_ids_issued = {"t1"}
    /\ groups = <<>>
    /\ owns = {[user |-> "u1", tree |-> "t1"]}
    /\ can_access = {}
    /\ member_of = {}
    /\ group_can_access = {}
    /\ resp = NoResp
    /\ InitAccounts
    /\ InitEnv
    /\ next_person_id = 3
    /\ rels = EmptyBag
    /\ comments = <<>>
    /\ people \in [{1, 2} -> [display_name : {AdultName}, tree_id : {"t1"},
                              sex : {"U", "M", "F"}, notes : {"", "k", "r"},
                              birth_date : {"", "1900", "1950"},
                              death_date : {"", "2000", "2010"},
                              is_deceased : BOOLEAN]]
    /\ \A p \in {1, 2} :
          /\ \A f \in DOMAIN FieldValues : people[p][f] \in FieldValues[f][p]
          /\ (people[p].death_date # "" => people[p].is_deceased)

NextFields == \E keep \in {1, 2}, remove \in {1, 2} : call_merge_person_into(keep, remove)

SpecFields == InitFields /\ [][NextFields]_vars

\* C16: after merge(keep, remove) each of sex, notes, birth_date, death_date
\* and is_deceased of keep has the value keep had before when that was set,
\* and the value remove had when keep's was unset (sex "U", an empty string,
\* false) and remove's was set; a set value of keep is never overwritten.
C16_KeepWinsGapsFilled ==
    [][\A keep \in {1, 2}, remove \in {1, 2} :
          MergeStep(keep, remove)
          => LET k == people[keep]
                 r == people[remove]
                 a == people'[keep]
             IN  /\ a.sex = (IF k.sex # "U" THEN k.sex ELSE r.sex)
                 /\ \A f \in {"notes", "birth_date", "death_date"} :
                       a[f] = (IF k[f] # "" THEN k[f] ELSE r[f])
                 /\ a.is_deceased = (k.is_deceased \/ r.is_deceased)
                 /\ a.display_name = k.display_name]_vars

\* person 2 was merged into person 1: person 1 kept its own notes and birth
\* date and took over the sex and the death date it did not have
C16_Witness ==
    /\ resp.op = "merge_person_into"
    /\ resp.keep = 1
    /\ DOMAIN people = {1}
    /\ people[1].notes = "k"
    /\ people[1].birth_date = "1900"
    /\ people[1].sex = "F"
    /\ people[1].death_date = "2010"
    /\ people[1].is_deceased

\* ------------------------------------------------------------------------
\* Specification of failing edge creation: a family as above, where the
\* store fails to create one PARENT_OF edge from a partner to the first child
\* (or none); the partners are linked, children are merged
\* ------------------------------------------------------------------------
\* the edges that may fail: from either partner to the first child
FailingEdges == {Edge(a, Cardinality(Adults) + 1, "PARENT_OF") : a \in Adults}

InitFail ==
    /\ FamilyBase
    /\ in_flight = {}
    /\ changes = {}
    /\ merge_run = NoMerge
    /\ sql = EmptySql
    /\ failing \in {{}} \cup {{e} : e \in FailingEdges}

NextFail ==
    \/ \E u \in {o.user : o \in owns}, t \in trees, f \in Adults, c \in Adults :
          tree_add_rel(u, t, f, c, "SPOUSE_OF")
    \/ \E keep \in DOMAIN people \ Adults, remove \in DOMAIN people \ Adults :
          call_merge_person_into(keep, remove)

SpecFail == InitFail /\ [][NextFail]_vars

\* C17: when the store fails to create an edge during a merge or during the
\* reconciliation after a spouse link, the operation still runs to the end:
\* the merge removes remove and re-creates on keep every other edge of
\* remove; the reconciliation answers 200 with its report of merged,
\* shared_with_a and shared_with_b, removes the second record of every
\* child listed under both partners and shares every one-sided child whose
\* edge can be created.
C17_EdgeFailureNotFatal ==
    [][failing # {} =>
         /\ \A keep \in DOMAIN people, remove \in DOMAIN people :
               MergeStep(keep, remove)
               => /\ resp'.status = 200
                  /\ remove \notin DOMAIN people'
                  /\ \A e \in BagToSet(rels) :
                        /\ (e.to = remove /\ e.from \notin {keep, remove}
                              /\ Edge(e.from, keep, e.type) \notin failing)
                           => edge_exists(rels', e.from, keep, e.type)
                        /\ (e.from = remove /\ e.to \notin {keep, remove}
                              /\ Edge(keep, e.to, e.type) \notin failing)
                           => edge_exists(rels', keep, e.to, e.type)
         /\ \A a \in Adults, b \in Adults :
               (/\ resp'.op = "tree_add_rel"
                /\ validate_new_rel(rels, a, b, "SPOUSE_OF") = 200
                /\ ProperCouple(a, b)
                /\ tree_add_rel("u1", "t1", a, b, "SPOUSE_OF"))
               => /\ resp'.status = 200
                  /\ DOMAIN resp'.report = {"merged", "shared_with_a", "shared_with_b"}
                  /\ \A m \in resp'.report.merged : m.removed_id \notin DOMAIN people'
                  /\ \A c \in DOMAIN people :
                        (/\ BagIn(Edge(a, c, "PARENT_OF"), rels)
                         /\ ChildrenNamed(b, people[c].display_name) = {}
                         /\ Edge(b, c, "PARENT_OF") \notin failing)
                        => BagIn(Edge(b, c, "PARENT_OF"), rels')]_vars

\* a merge found edges from both partners to remove; the edge from one of
\* them to keep could not be created and is missing, the edge from the other
\* is there and remove is gone
C17_Witness ==
    /\ resp.op = "merge_person_into"
    /\ resp.remove \notin DOMAIN people
    /\ resp.keep \in DOMAIN people
    /\ \E p \in Adults, q \in Adults :
          /\ p # q
          /\ Edge(p, resp.keep, "PARENT_OF") \in failing
          /\ {Edge(p, resp.remove, "PARENT_OF"), Edge(q, resp.remove, "PARENT_OF")}
                \subseteq resp.found_edges
          /\ ~BagIn(Edge(p, resp.keep, "PARENT_OF"), rels)
          /\ BagIn(Edge(q, resp.keep, "PARENT_OF"), rels)

\* ------------------------------------------------------------------------
\* Concurrent requests.  Every request has a connection of its own
\* (db.get_conn) and no transaction spans the validation reads and the write
\* of tree_add_rel, so requests interleave between the two: a request that
\* passed validation is in flight until it writes.
\* ------------------------------------------------------------------------
\* tree_add_rel up to the end of its validation
begin_tree_add_rel(u, t, f, c, ty) ==
    LET gate == require_role(u, t, "editor")
    IN  /\ UNCHANGED storedAclVars
        /\ UNCHANGED <<failing, changes, merge_run, sql>>
        /\ UNCHANGED graphVars
        /\ IF gate.status # 200
           THEN /\ resp' = [op |-> "tree_add_rel", status |-> gate.status]
                /\ UNCHANGED in_flight
           ELSE IF validate_new_rel(rels, f, c, ty) # 200
                THEN /\ resp' = [op |-> "tree_add_rel", status |-> 400]
                     /\ UNCHANGED in_flight
                ELSE /\ Edge(f, c, ty) \notin in_flight
                     /\ Cardinality(in_flight) < MaxInFlight
                     /\ in_flight' = in_flight \cup {Edge(f, c, ty)}
                     /\ resp' = [op |-> "validated", status |-> 0]

\* tree_add_rel from crud.create_relationship on: the write and, for a
\* spouse link, the reconciliation
finish_tree_add_rel(r) ==
    LET created == create_relationship(Store, r.from, r.to, r.type)
        rec     == merge_spouse_children(created, r.from, r.to)
    IN  /\ r \in in_flight
        /\ in_flight' = in_flight \ {r}
        /\ SetGraph(IF r.type = "SPOUSE_OF" THEN rec.store ELSE created)
        /\ resp' = [op |-> "tree_add_rel", status |-> 200]
        /\ UNCHANGED next_person_id
        /\ UNCHANGED storedAclVars
        /\ UNCHANGED <<failing, changes, merge_run, sql>>

NextRace ==
    \/ \E u \in Users, t \in trees, f \in DOMAIN people, c \in DOMAIN people, ty \in RelTypes :
          /\ BagCardinality(rels) + Cardinality(in_flight) < MaxRaceRels
          /\ begin_tree_add_rel(u, t, f, c, ty)
    \/ \E r \in in_flight : finish_tree_add_rel(r)

SpecRace == InitMerge /\ [][NextRace]_vars

\* ------------------------------------------------------------------------
\* Concurrency claims
\* ------------------------------------------------------------------------
\* C18: validation is check-then-act: a request to add a parent to a child
\* that has fewer than two parents, or to link two persons without a spouse,
\* passes validation also while another request for the same child (or the
\* same person) has passed validation and not yet written; and a request
\* that passed validation is answered 200 and, for a parent link, leaves its
\* edge in the store, whatever has been written since.
C18_RaceAdmitsBoth ==
    [][/\ \A f \in DOMAIN people, c \in DOMAIN people, ty \in RelTypes :
             (/\ f # c
              /\ \E r \in in_flight : r.type = ty /\ r # Edge(f, c, ty)
                                      /\ (r.to = c \/ (ty = "SPOUSE_OF" /\ {r.from, r.to} \cap {f, c} # {}))
              /\ IF ty = "PARENT_OF"
                 THEN ParentEdges(rels, c) < 2
                 ELSE SpouseEdges(rels, f) = 0 /\ SpouseEdges(rels, c) = 0
              /\ Cardinality(in_flight) < MaxInFlight
              /\ begin_tree_add_rel("u1", "t1", f, c, ty))
             => Edge(f, c, ty) \in in_flight'
       /\ \A r \in in_flight :
             finish_tree_add_rel(r)
             => /\ resp'.status = 200
                /\ r.type = "PARENT_OF" => CopiesIn(r, rels') >= 1]_vars

\* ------------------------------------------------------------------------
\* Specification of tree deletion: two trees with their owners, persons in
\* both, a group with a member; editors add edges and comments, owners
\* create share links, share their tree with users and the group, and
\* delete it
\* ------------------------------------------------------------------------
\* the ids of new comments
CommentIds == 1..MaxPersonItems

\* POST /api/trees/{tree_id}/people/{person_id}/comments
tree_add_comment(u, t, person_id) ==
    LET gate == require_role(u, t, "editor")
        free == CommentIds \ DOMAIN comments
    IN  /\ UNCHANGED aclVars
        /\ UNCHANGED next_person_id
        /\ IF gate.status # 200
           THEN Denied("tree_add_comment", gate.status)
           ELSE IF ~person_found(Store, person_id, t)
                THEN Denied("tree_add_comment", 404)
                ELSE /\ free # {}
                     /\ SetGraph(create_comment(Store, CHOOSE c \in free : \A d \in free : c <= d,
                                                person_id, t, u))
                     /\ resp' = [op |-> "tree_add_comment", status |-> 200]

\* sharing.create_share_link(conn, dataset, tree_id): a ShareLink node with a
\* new token
create_share_link(L, tree_id) ==
    LET free == (1..MaxTreeItems) \ {x.token : x \in L}
    IN  L \cup {[token |-> CHOOSE k \in free : \A d \in free : k <= d, tree_id |-> tree_id]}

\* POST /api/trees/{tree_id}/shares
tree_create_share(u, t) ==
    LET gate == require_role(u, t, "owner")
    IN  IF gate.status # 200
        THEN ShareDenied("tree_create_share", u, gate.status)
        ELSE /\ Cardinality(share_links) < MaxTreeItems
             /\ share_links' = create_share_link(share_links, t)
             /\ resp' = [op |-> "tree_create_share", status |-> 200]
             /\ UNCHANGED <<trees, tree_ids_issued, groups, owns, can_access, member_of,
                            group_can_access, users>>
             /\ UNCHANGED envVars
             /\ UNCHANGED graphVars

CascadeTrees == {"t1", "t2"}

InitCascade ==
    /\ trees = CascadeTrees
    /\ tree_ids_issued = CascadeTrees
    /\ groups = [g \in {"g1"} |-> [created_by |-> "u1"]]
    /\ owns = {[user |-> "u1", tree |-> "t1"], [user |-> "u2", tree |-> "t2"]}
    /\ can_access = {}
    /\ member_of = {[user |-> "u2", group |-> "g1"]}
    /\ group_can_access = {}
    /\ resp = NoResp
    /\ InitAccounts
    /\ InitEnv
    /\ people = [p \in 1..3 |-> NewPerson(AdultName, IF p = 3 THEN "t2" ELSE "t1")]
    /\ next_person_id = 4
    /\ rels = EmptyBag
    /\ comments = <<>>

TreeItems == BagCardinality(rels) + Cardinality(DOMAIN comments) + Cardinality(share_links)

NextCascade ==
    \/ \E u \in Users, t \in trees, f \in DOMAIN people, c \in DOMAIN people, ty \in RelTypes :
          TreeItems < MaxTreeItems /\ f < c /\ tree_add_rel(u, t, f, c, ty)
    \/ \E u \in Users, t \in trees, p \in DOMAIN people :
          TreeItems < MaxTreeItems /\ tree_add_comment(u, t, p)
    \/ \E u \in Users, t \in trees :
          TreeItems < MaxTreeItems /\ tree_create_share(u, t)
    \/ \E u \in Users, t \in trees, x \in Users : tree_add_member(u, t, x, "viewer")
    \/ \E u \in Users, t \in trees : grant_group(u, t, "g1", "editor")
    \/ \E u \in Users, t \in CascadeTrees : api_delete_tree(u, t)

SpecCascade == InitCascade /\ [][NextCascade]_vars

\* ------------------------------------------------------------------------
\* Deletion claims
\* ------------------------------------------------------------------------
\* what is left of tree t in the store
PersonsOf(t) == {p \in DOMAIN people : people[p].tree_id = t}

Remains(t) ==
    \/ t \in trees
    \/ PersonsOf(t) # {}
    \/ \E c \in DOMAIN comments : comments[c].tree_id = t
    \/ \E x \in share_links : x.tree_id = t
    \/ \E o \in owns : o.tree = t
    \/ \E g \in can_access : g.tree = t
    \/ \E x \in group_can_access : x.tree = t
    \/ \E u \in Users : get_user_role(u, t) # "none"

\* C19: after delete_tree(T) the tree node is gone, no person, comment or
\* share link carries T's id, no edge touches a person deleted with T, no
\* OWNS, CAN_ACCESS or GROUP_CAN_ACCESS edge leads to T, and every user's
\* effective role on T is none.
C19_DeleteTreeCascades ==
    [][\A t \in CascadeTrees :
          (t \in trees /\ delete_tree(t))
          => /\ ~Remains(t)'
             /\ \A e \in BagToSet(rels') :
                   e.from \notin PersonsOf(t) /\ e.to \notin PersonsOf(t)]_vars

\* tree t1 has been deleted with its two persons and its comment (comment 1,
\* written before comment 2), and the person and the comment of tree t2 are
\* still there
C19_Witness ==
    /\ resp.op = "delete_tree"
    /\ "t1" \notin trees
    /\ "t2" \in trees
    /\ DOMAIN people = {3}
    /\ DOMAIN comments = {2}
    /\ ~Remains("t1")

\* ------------------------------------------------------------------------
\* Specification of person deletion: the two trees of InitCascade; editors
\* add edges and comments and delete persons
\* ------------------------------------------------------------------------
PersonItems == BagCardinality(rels) + Cardinality(DOMAIN comments)

NextDeletePerson ==
    \/ \E u \in Users, t \in trees, f \in DOMAIN people, c \in DOMAIN people, ty \in RelTypes :
          PersonItems < MaxPersonItems /\ f # c /\ tree_add_rel(u, t, f, c, ty)
    \/ \E u \in Users, t \in trees, p \in DOMAIN people :
          PersonItems < MaxPersonItems /\ tree_add_comment(u, t, p)
    \/ \E u \in Users, t \in trees, id \in IssuedIds : tree_delete_person(u, t, id)

SpecDeletePerson == InitCascade /\ [][NextDeletePerson]_vars

\* C20: after delete_person(p) the person p is gone, no PARENT_OF or
\* SPOUSE_OF edge has p as an endpoint and no comment has person_id p; every
\* other person and every edge not incident to p is as it was.
C20_DeletePersonCascades ==
    [][\A u \in Users, t \in CascadeTrees, p \in PersonIds :
          (/\ resp'.op = "tree_delete_person"
           /\ resp'.status = 200
           /\ person_found(Store, p, t)
           /\ tree_delete_person(u, t, p))
          => /\ DOMAIN people' = DOMAIN people \ {p}
             /\ \A x \in DOMAIN people' : people'[x] = people[x]
             /\ \A e \in BagToSet(rels') : e.from # p /\ e.to # p
             /\ \A c \in DOMAIN comments' : comments'[c].person_id # p
             /\ \A e \in BagToSet(rels) :
                   (e.from # p /\ e.to # p) => CopiesIn(e, rels') = CopiesIn(e, rels)]_vars

\* person 1 has been deleted with its comment (comment 1, written before
\* comment 2), and the edge between the two other persons and the comment
\* on one of them are still there
C20_Witness ==
    /\ resp.op = "tree_delete_person"
    /\ resp.status = 200
    /\ DOMAIN people = {2, 3}
    /\ DOMAIN comments = {2}
    /\ \E e \in BagToSet(rels) : {e.from, e.to} = {2, 3}

\* ------------------------------------------------------------------------
\* Audit log (app/changelog.py)
\* ------------------------------------------------------------------------
\* record_change: a TreeChange node with a new id
record_change(C, tree_id, user_id) ==
    LET free == (1..MaxChanges) \ {x.id : x \in C}
    IN  C \cup {[id |-> CHOOSE k \in free : \A d \in free : k <= d,
                 tree_id |-> tree_id, user_id |-> user_id]}

\* list_changes(tree_id): the entries carrying the tree's id
list_changes(C, tree_id) == {x \in C : x.tree_id = tree_id}

\* a change to a tree is recorded for the user who made it
call_record_change(u, t) ==
    /\ Cardinality(changes) < MaxChanges
    /\ changes' = record_change(changes, t, u)
    /\ resp' = [op |-> "record_change", status |-> 200]
    /\ UNCHANGED storedAclVars
    /\ UNCHANGED <<failing, in_flight, merge_run, sql>>
    /\ UNCHANGED graphVars

\* ------------------------------------------------------------------------
\* Specification of the audit log: the two trees of InitCascade; changes
\* are recorded for both, comments and share links are added, trees are
\* deleted
\* ------------------------------------------------------------------------
NextChangelog ==
    \/ \E u \in Users, t \in trees : call_record_change(u, t)
    \/ \E u \in Users, t \in trees, p \in DOMAIN people :
          TreeItems < MaxTreeItems /\ tree_add_comment(u, t, p)
    \/ \E u \in Users, t \in trees :
          TreeItems < MaxTreeItems /\ tree_create_share(u, t)
    \/ \E u \in Users, t \in CascadeTrees : api_delete_tree(u, t)

SpecChangelog == InitCascade /\ [][NextChangelog]_vars

\* C21: after delete_tree(T), list_changes(T) returns no entries, and the
\* audit-log entries of every other tree are kept.
C21_ChangelogDeletedWithTree ==
    [][\A t \in CascadeTrees :
          (t \in trees /\ delete_tree(t))
          => /\ list_changes(changes', t) = {}
             /\ \A o \in CascadeTrees \ {t} : list_changes(changes', o) = list_changes(changes, o)]_vars

\* ------------------------------------------------------------------------
\* Specification of tree isolation: the two trees of InitCascade, each with
\* its owner; both users send tree-scoped requests naming any tree, person
\* and edge, changes are recorded, trees are cleared and deleted
\* ------------------------------------------------------------------------
\* crud.clear_all(conn, tree_id=t), called directly
call_clear_all(t) ==
    /\ SetGraph(clear_all(Store, t))
    /\ resp' = [op |-> "clear_all", status |-> 200]
    /\ UNCHANGED next_person_id
    /\ UNCHANGED aclVars

NextIsolation ==
    \/ \E u \in Users, t \in trees, f \in DOMAIN people, c \in DOMAIN people :
          PersonItems < MaxPersonItems /\ f # c /\ tree_add_rel(u, t, f, c, "PARENT_OF")
    \/ \E u \in Users, t \in trees, p \in DOMAIN people :
          PersonItems < MaxPersonItems /\ tree_add_comment(u, t, p)
    \/ \E u \in Users, t \in trees : call_record_change(u, t)
    \/ \E u \in Users, t \in trees, id \in IssuedIds : tree_delete_person(u, t, id)
    \/ \E u \in Users, t \in trees, e \in BagToSet(rels) : tree_delete_rel(u, t, e)
    \/ \E t \in trees : call_clear_all(t)
    \/ \E u \in Users, t \in CascadeTrees : api_delete_tree(u, t)

SpecIsolation == InitCascade /\ [][NextIsolation]_vars

\* the persons, edges, comments and audit-log entries of the trees other
\* than t are found unchanged after the step
OthersUntouched(t) ==
    /\ \A p \in DOMAIN people :
          people[p].tree_id # t => p \in DOMAIN people' /\ people'[p] = people[p]
    /\ \A e \in BagToSet(rels) :
          (people[e.from].tree_id # t /\ people[e.to].tree_id # t)
          => CopiesIn(e, rels') >= CopiesIn(e, rels)
    /\ \A c \in DOMAIN comments :
          comments[c].tree_id # t => c \in DOMAIN comments' /\ comments'[c] = comments[c]
    /\ \A x \in changes : x.tree_id # t => x \in changes'

\* C22: an operation addressed to tree T1 (delete_person with tree_id T1,
\* clear_all(T1), delete_tree(T1), or a tree-scoped endpoint authorised
\* against T1 that names a person or relationship id) never changes or
\* deletes a person, relationship, comment or audit-log entry of another
\* tree.
C22_TreeIsolation ==
    [][\A u \in Users, t \in CascadeTrees :
          (\/ \E id \in IssuedIds : tree_delete_person(u, t, id)
           \/ \E e \in BagToSet(rels) : tree_delete_rel(u, t, e)
           \/ \E p \in DOMAIN people : tree_add_comment(u, t, p)
           \/ call_clear_all(t)
           \/ api_delete_tree(u, t))
          => OthersUntouched(t)]_vars

DeathDates == {"", "2020-01-01"}
Supplied == {"unset", "true", "false"}     \* is_deceased of the request body

\* the is_deceased stored on create: the supplied value, or, when none was
\* supplied, whether there is a death date
derive_is_deceased(death_date, is_deceased) ==
    IF is_deceased = "unset" THEN death_date # "" ELSE is_deceased = "true"

\* create_person(..., death_date=..., is_deceased=...)
create_person_dated(S, id, display_name, tree_id, death_date, is_deceased) ==
    [S EXCEPT !.people =
        [x \in DOMAIN S.people \cup {id} |->
            IF x = id
            THEN [display_name |-> display_name, sex |-> "U", notes |-> "",
                  birth_date |-> "", death_date |-> death_date,
                  is_deceased |-> derive_is_deceased(death_date, is_deceased),
                  tree_id |-> tree_id]
            ELSE S.people[x]]]

\* update_person(..., death_date=..., is_deceased=...): the values it may
\* store as is_deceased; without a death date and without a supplied value
\* the person keeps its flag or loses it
update_is_deceased(old, death_date, is_deceased) ==
    IF is_deceased # "unset" THEN {is_deceased = "true"}
    ELSE IF death_date # "" THEN {TRUE}
    ELSE {old, FALSE}

update_person(S, id, death_date, deceased) ==
    [S EXCEPT !.people[id].death_date = death_date, !.people[id].is_deceased = deceased]

\* variant: the dates of the request body are not passed on
tree_add_person_dated_Dropped(u, t, name, death_date, is_deceased) ==
    /\ tree_add_person(u, t, name)

\* POST /api/trees/{tree_id}/people with death_date and is_deceased
tree_add_person_dated(u, t, name, death_date, is_deceased) ==
    LET gate == require_role(u, t, "editor")
    IN  /\ next_person_id <= MaxPersons
        /\ UNCHANGED aclVars
        /\ IF gate.status # 200
           THEN Denied("tree_add_person", gate.status)
           ELSE /\ SetGraph(create_person_dated(Store, next_person_id, name, t,
                                                death_date, is_deceased))
                /\ next_person_id' = next_person_id + 1
                /\ resp' = [op |-> "tree_add_person", status |-> 200]

\* PUT /api/trees/{tree_id}/people/{person_id}
tree_update_person(u, t, id, death_date, is_deceased) ==
    LET gate == require_role(u, t, "editor")
    IN  /\ UNCHANGED aclVars
        /\ UNCHANGED next_person_id
        /\ IF gate.status # 200
           THEN Denied("tree_update_person", gate.status)
           ELSE IF ~person_found(Store, id, t)
                THEN Denied("tree_update_person", 404)
                ELSE /\ \E d \in update_is_deceased(people[id].is_deceased, death_date, is_deceased) :
                           SetGraph(update_person(Store, id, death_date, d))
                     /\ resp' = [op |-> "tree_update_person", status |-> 200]

NextDates ==
    \/ \E u \in Users, t \in trees, n \in Names, dd \in DeathDates, isd \in Supplied :
          tree_add_person_dated(u, t, n, dd, isd)
    \/ \E u \in Users, t \in trees, id \in IssuedIds, dd \in DeathDates, isd \in Supplied :
          tree_update_person(u, t, id, dd, isd)

SpecDates == Init /\ [][NextDates]_vars

\* C24: on create_person and on update_person, when death_date is non-empty
\* and is_deceased was not supplied, the stored is_deceased is true; a person
\* created with no death_date and no is_deceased has is_deceased false.
C24_DeceasedDerived ==
    [][\A u \in Users, t \in trees, dd \in DeathDates :
          /\ \A n \in Names :
                (/\ resp'.op = "tree_add_person"
                 /\ resp'.status = 200
                 /\ tree_add_person_dated(u, t, n, dd, "unset"))
                => /\ next_person_id \in DOMAIN people'
                   /\ people'[next_person_id].is_deceased = (dd # "")
          /\ \A id \in IssuedIds :
                (/\ resp'.op = "tree_update_person"
                 /\ resp'.status = 200
                 /\ dd # ""
                 /\ tree_update_person(u, t, id, dd, "unset"))
                => people'[id].death_date = dd /\ people'[id].is_deceased]_vars

\* one person was created with a death date and is deceased, another was
\* created without one, got its death date by an update and is deceased
C24_Witness ==
    /\ resp = [op |-> "tree_update_person", status |-> 200]
    /\ \E a \in DOMAIN people, b \in DOMAIN people :
          /\ a # b
          /\ people[a].death_date # "" /\ people[a].is_deceased
          /\ people[b].death_date # "" /\ people[b].is_deceased

\* ------------------------------------------------------------------------
\* The merge statement by statement.  merge_person_into runs its store
\* statements one after the other with no transaction around them, so the
\* process can stop between any two of them: property reconciliation, one
\* statement per edge of remove (outgoing edges first), the re-pointing of
\* the comments, the deletion of remove.
\* ------------------------------------------------------------------------
storeVars == <<trees, tree_ids_issued, groups, owns, can_access, member_of,
               group_can_access, users, share_links, failing, in_flight, changes, sql>>

MergeRunning == merge_run.step \in {"out", "inc", "comments", "delete"}

\* the edges of remove that the merge is to re-create on keep
EdgesToTransfer(R, keep, remove) ==
    {e \in BagToSet(R) : \/ e.from = remove /\ e.to \notin {keep, remove}
                         \/ e.to = remove /\ e.from \notin {keep, remove}}

\* the edge on keep that stands for remove's edge e
Repointed(e, keep, remove) ==
    IF e.from = remove THEN Edge(keep, e.to, e.type) ELSE Edge(e.from, keep, e.type)

\* the step after the edge statements still to run
StepAfter(todo_out, todo_inc) ==
    IF todo_out # {} THEN "out" ELSE IF todo_inc # {} THEN "inc" ELSE "comments"

\* step 1, and the enumeration of remove's edges
merge_begin(keep, remove) ==
    LET out == {e \in BagToSet(rels) : e.from = remove /\ e.to # keep}
        inc == {e \in BagToSet(rels) : e.to = remove /\ e.from # keep}
    IN  /\ ~MergeRunning
        /\ keep \in DOMAIN people /\ remove \in DOMAIN people /\ keep # remove
        /\ SetGraph(reconcile_properties(Store, keep, remove))
        /\ merge_run' = [step |-> StepAfter(out, inc), keep |-> keep, remove |-> remove,
                         todo_out |-> out, todo_inc |-> inc,
                         found_edges |-> EdgesToTransfer(rels, keep, remove),
                         found_comments |-> list_comments(comments, remove)]
        /\ resp' = [op |-> "merge_person_into", status |-> 0]
        /\ UNCHANGED next_person_id
        /\ UNCHANGED storeVars

\* step 2, one edge: it is re-created on keep unless an equivalent edge exists
merge_transfer_edge(e) ==
    LET keep   == merge_run.keep
        remove == merge_run.remove
        n      == Repointed(e, keep, remove)
        out    == merge_run.todo_out \ {e}
        inc    == IF merge_run.step = "out" THEN merge_run.todo_inc
                  ELSE merge_run.todo_inc \ {e}
    IN  /\ \/ merge_run.step = "out" /\ e \in merge_run.todo_out
           \/ merge_run.step = "inc" /\ e \in merge_run.todo_inc
        /\ rels' = IF edge_exists(rels, n.from, n.to, n.type) \/ n \in failing
                   THEN rels
                   ELSE rels (+) SetToBag({n})
        /\ merge_run' = [merge_run EXCEPT !.step = StepAfter(out, inc),
                                          !.todo_out = out, !.todo_inc = inc]
        /\ UNCHANGED <<people, comments, next_person_id, resp>>
        /\ UNCHANGED storeVars

\* step 3
merge_reassign_comments ==
    /\ merge_run.step = "comments"
    /\ SetGraph(reassign_comments(Store, merge_run.keep, merge_run.remove))
    /\ merge_run' = [merge_run EXCEPT !.step = "delete"]
    /\ UNCHANGED <<next_person_id, resp>>
    /\ UNCHANGED storeVars

\* variant: remove is deleted as soon as the merge has begun
merge_delete_remove_Early ==
    /\ MergeRunning
    /\ SetGraph(delete_person(Store, merge_run.remove, ""))
    /\ merge_run' = [merge_run EXCEPT !.step = "done"]
    /\ resp' = [op |-> "merge_person_into", status |-> 200]
    /\ UNCHANGED next_person_id
    /\ UNCHANGED storeVars

\* step 4
merge_delete_remove ==
    /\ merge_run.step = "delete"
    /\ SetGraph(delete_person(Store, merge_run.remove, ""))
    /\ merge_run' = [merge_run EXCEPT !.step = "done"]
    /\ resp' = [op |-> "merge_person_into", status |-> 200]
    /\ UNCHANGED next_person_id
    /\ UNCHANGED storeVars

\* the process stops between two statements of the merge
merge_interrupt ==
    /\ MergeRunning
    /\ merge_run' = [merge_run EXCEPT !.step = "interrupted"]
    /\ resp' = [op |-> "merge_person_into", status |-> 500]
    /\ UNCHANGED graphVars
    /\ UNCHANGED storeVars

\* edges and comments are created while no merge runs
crash_create_relationship(f, t, ty) ==
    /\ merge_run.step = "idle"
    /\ BagCardinality(rels) + Cardinality(DOMAIN comments) < MaxCrashItems
    /\ SetGraph(create_relationship(Store, f, t, ty))
    /\ resp' = [op |-> "create_relationship", status |-> 200]
    /\ UNCHANGED next_person_id
    /\ UNCHANGED aclVars

crash_create_comment(person_id, author_id) ==
    LET free == (1..MaxCrashItems) \ DOMAIN comments
    IN  /\ merge_run.step = "idle"
        /\ BagCardinality(rels) + Cardinality(DOMAIN comments) < MaxCrashItems
        /\ person_id \in DOMAIN people
        /\ SetGraph(create_comment(Store, CHOOSE c \in free : \A d \in free : c <= d,
                                   person_id, people[person_id].tree_id, author_id))
        /\ resp' = [op |-> "create_comment", status |-> 200]
        /\ UNCHANGED next_person_id
        /\ UNCHANGED aclVars

NextCrash ==
    \/ \E f \in DOMAIN people, t \in DOMAIN people, ty \in RelTypes :
          f # t /\ crash_create_relationship(f, t, ty)
    \/ \E id \in DOMAIN people : crash_create_comment(id, "u1")
    \/ \E keep \in MergePersons, remove \in MergePersons : merge_begin(keep, remove)
    \/ \E e \in BagToSet(rels) : merge_transfer_edge(e)
    \/ merge_reassign_comments
    \/ merge_delete_remove
    \/ merge_interrupt

SpecCrash == InitMerge /\ [][NextCrash]_vars

\* ------------------------------------------------------------------------
\* Interrupted merge
\* ------------------------------------------------------------------------
\* keep holds the edge that stands for remove's edge e
HeldByKeep(e) ==
    LET n == Repointed(e, merge_run.keep, merge_run.remove)
    IN  edge_exists(rels, n.from, n.to, n.type)

C26_RejectedSetParentWritesNothing ==
    [][\A u \in Users, t \in trees, id \in IssuedIds, body \in ParentBodies :
          (/\ resp'.op = "tree_set_parent"
           /\ resp'.status \in {400, 404}
           /\ tree_set_parent(u, t, id, body))
          => \A e \in BagToSet(rels) \cup BagToSet(rels') :
                (e.type = "PARENT_OF" /\ e.to = id) => CopiesIn(e, rels') = CopiesIn(e, rels)]_vars

\* ------------------------------------------------------------------------
\* Grant claims
\* ------------------------------------------------------------------------
\* C27: there is at most one direct-grant edge per (user, tree) and at most
\* one group-grant edge per (group, tree); a grant to a grantee that has one
\* replaces its role, and get_user_role then gives the role just granted
\* when that grant is the user's only source.
C27_OneGrantPerPair ==
    /\ [](\A u \in Users, t \in TreeIds : Cardinality(DirectRows(u, t)) <= 1)
    /\ [](\A g \in GroupIds, t \in TreeIds : Cardinality(GroupGrantRows(t, g)) <= 1)
    /\ [][\A t \in trees, r \in GrantRoles :
             /\ \A u \in Users :
                   (resp'.op = "grant_user_access" /\ grant_user_access(t, u, r))
                   => /\ DirectRows(u, t)' = {[user |-> u, tree |-> t, role |-> r]}
                      /\ (~IsOwner(u, t) /\ GroupRows(u, t) = {}) => get_user_role(u, t)' = r
             /\ \A g \in DOMAIN groups :
                   (resp'.op = "grant_group_access" /\ grant_group_access(t, g, r))
                   => /\ GroupGrantRows(t, g)' = {[group |-> g, tree |-> t, role |-> r]}
                      /\ \A u \in Users :
                            (/\ ~IsOwner(u, t)
                             /\ DirectRows(u, t) = {}
                             /\ {pr[1].group : pr \in GroupRows(u, t)'} = {g})
                            => get_user_role(u, t)' = r]_vars

\* a user holds a direct grant and, through a group, a group grant on the
\* same tree, and the direct grant has just been granted
C27_Witness ==
    /\ resp.op = "grant_user_access"
    /\ \E u \in Users, t \in trees :
          /\ ~IsOwner(u, t)
          /\ DirectRows(u, t) # {}
          /\ GroupRows(u, t) # {}

\* the role of u on t without the direct grant (when no_direct) and without
\* the grants that come through group no_group
RoleWithout(u, t, no_direct, no_group) ==
    IF IsOwner(u, t) THEN "owner"
    ELSE BestOf("none",
                (IF no_direct THEN {} ELSE {g.role : g \in DirectRows(u, t)})
                \cup {pr[2].role : pr \in {x \in GroupRows(u, t) : x[1].group # no_group}})

\* C28: after delete_group(g), remove_member(g, u), revoke_group_access(t, g)
\* or revoke_user_access(t, u) the revoked source no longer contributes to
\* any effective role: every role is what the remaining sources give, a user
\* left without a source has role none and require_role answers 404, and
\* the roles that did not come through the revoked source are unchanged.
C28_RevokedSourceGone ==
    [][/\ \A t \in TreeIds, u \in Users :
             (resp'.op = "revoke_user_access" /\ revoke_user_access(t, u))
             => \A u2 \in Users, t2 \in TreeIds :
                   get_user_role(u2, t2)' = RoleWithout(u2, t2, u2 = u /\ t2 = t, "")
       /\ \A t \in TreeIds, g \in GroupIds :
             (resp'.op = "revoke_group_access" /\ revoke_group_access(t, g))
             => \A u2 \in Users, t2 \in TreeIds :
                   get_user_role(u2, t2)' = RoleWithout(u2, t2, FALSE, IF t2 = t THEN g ELSE "")
       /\ \A g \in GroupIds, u \in Users :
             (resp'.op = "remove_member" /\ remove_member(g, u))
             => \A u2 \in Users, t2 \in TreeIds :
                   get_user_role(u2, t2)' = RoleWithout(u2, t2, FALSE, IF u2 = u THEN g ELSE "")
       /\ \A g \in GroupIds :
             (resp'.op = "delete_group" /\ delete_group(g))
             => \A u2 \in Users, t2 \in TreeIds :
                   get_user_role(u2, t2)' = RoleWithout(u2, t2, FALSE, g)
       /\ resp'.op \in {"revoke_user_access", "revoke_group_access", "remove_member", "delete_group"}
          => \A u2 \in Users, t2 \in TreeIds, m \in MinRoles :
                get_user_role(u2, t2)' = "none" => require_role(u2, t2, m)'.status = 404]_vars

\* a group with a grant on the tree has just lost a member, who has no
\* other source and so no role on the tree
C28_Witness ==
    /\ resp.op = "remove_member"
    /\ \E g \in DOMAIN groups, t \in trees, u \in Users :
          /\ GroupGrantRows(t, g) # {}
          /\ [user |-> u, group |-> g] \notin member_of
          /\ get_user_role(u, t) = "none"

\* ------------------------------------------------------------------------
\* The versioned relational store (app/crud.py, app/models.py).  None is 0
\* for a person, tree or version id.
\* ------------------------------------------------------------------------
kuzuVars == <<trees, tree_ids_issued, groups, owns, can_access, member_of,
              group_can_access, users, share_links, failing, in_flight, changes,
              merge_run>>

SqlPersons == {1, 2}
SqlTreeIds == {0, 1}
SqlVersionIds == {0, 1}
RelType == {"CHILD_OF", "EARLIEST_ANCESTOR"}

SqlRow(f, t, ty, tree_id, tree_version_id) ==
    [from_person_id |-> f, to_person_id |-> t, type |-> ty, tree_id |-> tree_id,
     tree_version_id |-> tree_version_id]

\* the rows of existing_q: the EARLIEST_ANCESTOR rows of the version when one
\* is given, else those without a tree when no tree is given, else those of
\* the tree
existing_q(R, tree_id, tree_version_id) ==
    {x \in BagToSet(R) :
        /\ x.type = "EARLIEST_ANCESTOR"
        /\ IF tree_version_id # 0 THEN x.tree_version_id = tree_version_id
           ELSE x.tree_id = tree_id}

\* create_relationship of the relational store: [relationships, error].
\* first is the row existing_q.first() returned, or empty.
sql_create_relationship(R, from_id, to_id, rel_type, tree_id, tree_version_id, first) ==
    IF rel_type = "EARLIEST_ANCESTOR" /\ first # {}
       /\ (CHOOSE x \in first : TRUE).from_person_id # from_id
    THEN [relationships |-> R, error |-> TRUE]
    ELSE IF rel_type = "CHILD_OF" /\ to_id = 0
    THEN [relationships |-> R, error |-> TRUE]
    ELSE [relationships |->
              R (+) SetToBag({SqlRow(from_id,
                                     IF rel_type = "EARLIEST_ANCESTOR" THEN 0 ELSE to_id,
                                     rel_type, tree_id, tree_version_id)}),
          error |-> FALSE]

\* a call of create_relationship; first() returns one of the rows found
call_sql_create_relationship(from_id, to_id, rel_type, tree_id, tree_version_id) ==
    LET found == existing_q(sql.relationships, tree_id, tree_version_id)
    IN  /\ BagCardinality(sql.relationships) < MaxSqlRels
        /\ \E first \in (IF found = {} THEN {{}} ELSE {{x} : x \in found}) :
              LET res == sql_create_relationship(sql.relationships, from_id, to_id, rel_type,
                                                 tree_id, tree_version_id, first)
              IN  /\ sql' = [sql EXCEPT !.relationships = res.relationships]
                  /\ resp' = [op |-> "sql_create_relationship",
                              status |-> IF res.error THEN 400 ELSE 200]
        /\ UNCHANGED kuzuVars
        /\ UNCHANGED graphVars

NextAncestor ==
    \E f \in SqlPersons, t \in SqlPersons \cup {0}, ty \in RelType,
       tree_id \in SqlTreeIds, v \in SqlVersionIds :
          call_sql_create_relationship(f, t, ty, tree_id, v)

SpecAncestor == Init /\ [][NextAncestor]_vars

\* the EARLIEST_ANCESTOR rows of one scope: a tree version, or without a
\* version a tree, or without both the unscoped set
AncestorsIn(R, tree_id, tree_version_id) ==
    CountIn(R, {x \in BagToSet(R) :
                   /\ x.type = "EARLIEST_ANCESTOR"
                   /\ x.tree_version_id = tree_version_id
                   /\ tree_version_id = 0 => x.tree_id = tree_id})

\* C29: in the relational store each tree version (or, without a version,
\* each tree, or the unscoped set) holds at most one EARLIEST_ANCESTOR row;
\* a further EARLIEST_ANCESTOR request in the same scope raises an error and
\* writes nothing; every stored EARLIEST_ANCESTOR has no to_person_id.
C29_OneEarliestAncestor ==
    /\ [](\A tree_id \in SqlTreeIds, v \in SqlVersionIds :
             AncestorsIn(sql.relationships, tree_id, v) <= 1)
    /\ [](\A x \in BagToSet(sql.relationships) :
             x.type = "EARLIEST_ANCESTOR" => x.to_person_id = 0)
    /\ [][\A f \in SqlPersons, t \in SqlPersons \cup {0}, tree_id \in SqlTreeIds,
            v \in SqlVersionIds :
             (/\ AncestorsIn(sql.relationships, tree_id, v) >= 1
              /\ call_sql_create_relationship(f, t, "EARLIEST_ANCESTOR", tree_id, v))
             => resp'.status = 400 /\ sql' = sql]_vars

\* ---- tree versions of the relational store ----

TreeNames == {"", "Fam"}
SourceFilenames == {"", "Fam"}

SqlTree(id, name) == [id |-> id, name |-> name]
SqlVersion(id, tree_id, version, active) ==
    [id |-> id, tree_id |-> tree_id, version |-> version, active |-> active]
SqlPerson(id, tree_id, tree_version_id) ==
    [id |-> id, tree_id |-> tree_id, tree_version_id |-> tree_version_id]

\* the next value of an autoincrement key
NextKey(rows) == IF rows = {} THEN 1 ELSE 1 + (CHOOSE k \in {r.id : r \in rows} :
                                                \A r \in rows : r.id <= k)

\* query(...).first() on rows in key order: the set of at most one row
FirstById(rows) == {r \in rows : \A q \in rows : r.id <= q.id}

\* order_by(TreeVersion.version.desc()).first(): a row of the highest number
LastVersion(V) == IF V = {} THEN {}
                  ELSE {CHOOSE v \in V : \A w \in V : w.version <= v.version}

\* create_or_increment_tree_version without marking the previous version inactive
create_or_increment_tree_version_KeepActive(Q, name, source_filename, tree_id) ==
    LET nm    == IF name # "" THEN name
                 ELSE IF source_filename # "" THEN source_filename ELSE "Imported"
        found == IF tree_id # 0 THEN FirstById({t \in Q.trees : t.id = tree_id})
                 ELSE FirstById({t \in Q.trees : t.name = nm})
    IN  IF tree_id # 0 /\ found = {}
        THEN [trees |-> Q.trees, versions |-> Q.versions, tree |-> 0, tv |-> 0, error |-> TRUE]
        ELSE LET tree  == IF found # {} THEN CHOOSE t \in found : TRUE
                          ELSE SqlTree(NextKey(Q.trees), nm)
                 last  == LastVersion({v \in Q.versions : v.tree_id = tree.id})
                 next_ver == IF last = {} THEN 1 ELSE (CHOOSE v \in last : TRUE).version + 1
                 tv    == SqlVersion(NextKey(Q.versions), tree.id, next_ver, TRUE)
             IN  [trees |-> Q.trees \cup {tree},
                  versions |-> Q.versions \cup {tv},
                  tree |-> tree.id, tv |-> tv.id, error |-> FALSE]

\* create_or_increment_tree_version on the store Q:
\* [trees, versions, tree (its id), tv (the new version's id), error]
create_or_increment_tree_version(Q, name, source_filename, tree_id) ==
    LET nm    == IF name # "" THEN name
                 ELSE IF source_filename # "" THEN source_filename ELSE "Imported"
        found == IF tree_id # 0 THEN FirstById({t \in Q.trees : t.id = tree_id})
                 ELSE FirstById({t \in Q.trees : t.name = nm})
    IN  IF tree_id # 0 /\ found = {}
        THEN [trees |-> Q.trees, versions |-> Q.versions, tree |-> 0, tv |-> 0, error |-> TRUE]
        ELSE LET tree  == IF found # {} THEN CHOOSE t \in found : TRUE
                          ELSE SqlTree(NextKey(Q.trees), nm)
                 last  == LastVersion({v \in Q.versions : v.tree_id = tree.id})
                 next_ver == IF last = {} THEN 1 ELSE (CHOOSE v \in last : TRUE).version + 1
                 tv    == SqlVersion(NextKey(Q.versions), tree.id, next_ver, TRUE)
             IN  [trees |-> Q.trees \cup {tree},
                  versions |-> {IF v \in last THEN [v EXCEPT !.active = FALSE] ELSE v :
                                   v \in Q.versions} \cup {tv},
                  tree |-> tree.id, tv |-> tv.id, error |-> FALSE]

\* a row of working_changes; payload holds every key a draft may carry,
\* 0 and "" standing for an absent key
SqlDraft(id, tree_id, base_tree_version_id, change_type, payload) ==
    [id |-> id, tree_id |-> tree_id, base_tree_version_id |-> base_tree_version_id,
     change_type |-> change_type, payload |-> payload]

Payload(id, deleted, from_person_id, to_person_id, type, op) ==
    [id |-> id, deleted |-> deleted, draft_person_id |-> 0,
     from_person_id |-> from_person_id, to_person_id |-> to_person_id,
     type |-> type, op |-> op]

\* create_person of the relational store; the key is a fresh uuid
sql_create_person(Q, tree_id, tree_version_id) ==
    [Q EXCEPT !.persons = @ \cup {SqlPerson(Q.person_seq + 1, tree_id, tree_version_id)},
              !.person_seq = @ + 1]

\* create_draft: a person draft without id gets a draft_person_id, a fresh
\* uuid (here a negative number, apart from every person key)
create_draft(Q, tree_id, base_tree_version_id, change_type, payload) ==
    LET pl == IF change_type = "person" /\ payload.id = 0 /\ payload.draft_person_id = 0
              THEN [payload EXCEPT !.draft_person_id = 0 - (Q.draft_seq + 1)]
              ELSE payload
    IN  [Q EXCEPT !.drafts = Append(@, SqlDraft(Q.draft_seq + 1, tree_id,
                                                base_tree_version_id, change_type, pl)),
                  !.draft_seq = @ + 1]

\* old_to_new_person.get(key), 0 for None
MapGet(m, k) == IF k \in DOMAIN m THEN m[k] ELSE 0

\* the rows of relationship table R left after removing those in S
WithoutRows(R, S) == [x \in BagToSet(R) \ S |-> R[x]]

\* one turn of the loop over the drafts of publish_drafts, on
\* st = [persons, relationships, map, person_seq, kept]
apply_draft(st, d, tree, tv) ==
    LET pl == d.payload
    IN  IF d.change_type = "person"
        THEN IF pl.id # 0 /\ pl.deleted
             THEN LET mapped == MapGet(st.map, pl.id)
                  IN  IF mapped # 0
                      THEN [st EXCEPT
                              !.relationships = WithoutRows(@,
                                  {x \in BagToSet(@) :
                                      /\ x.tree_version_id = tv
                                      /\ (x.from_person_id = mapped \/ x.to_person_id = mapped)}),
                              !.persons = {q \in @ : ~(q.tree_version_id = tv /\ q.id = mapped)}]
                      ELSE st
             ELSE IF pl.id # 0
             THEN st
             ELSE LET draft_pid == IF pl.draft_person_id # 0 THEN pl.draft_person_id
                                   ELSE 0 - d.id
                      newp == SqlPerson(st.person_seq + 1, tree, tv)
                  IN  [st EXCEPT
                          !.persons = @ \cup {newp},
                          !.person_seq = @ + 1,
                          !.map = [k \in DOMAIN @ \cup {draft_pid} |->
                                      IF k = draft_pid THEN newp.id ELSE @[k]]]
        ELSE IF d.change_type = "relationship"
        THEN LET mapped_from == IF MapGet(st.map, pl.from_person_id) # 0
                                THEN MapGet(st.map, pl.from_person_id)
                                ELSE pl.from_person_id
                 mapped_to   == IF pl.to_person_id # 0 THEN MapGet(st.map, pl.to_person_id)
                                ELSE 0
                 replaced    == IF pl.op = "replace" /\ mapped_from # 0
                                THEN WithoutRows(st.relationships,
                                        {x \in BagToSet(st.relationships) :
                                            /\ x.tree_version_id = tv
                                            /\ x.from_person_id = mapped_from})
                                ELSE st.relationships
             IN  IF pl.op = "delete" /\ mapped_from # 0
                 THEN [st EXCEPT
                         !.relationships = WithoutRows(replaced,
                             {x \in BagToSet(replaced) :
                                 /\ x.tree_version_id = tv
                                 /\ x.from_person_id = mapped_from
                                 /\ mapped_to # 0 => x.to_person_id = mapped_to}),
                         !.kept = @ \cup {d.id}]
                 ELSE [st EXCEPT
                         !.relationships = replaced (+)
                             SetToBag({SqlRow(mapped_from, mapped_to, pl.type, tree, tv)})]
        ELSE st

RECURSIVE apply_drafts(_, _, _, _)
apply_drafts(st, ds, tree, tv) ==
    IF ds = <<>> THEN st
    ELSE apply_drafts(apply_draft(st, Head(ds), tree, tv), Tail(ds), tree, tv)

\* publish_drafts on the store Q: [sql, tv, error]
publish_drafts(Q, tree_id, base_tree_version_id) ==
    LET found == IF tree_id # 0 THEN FirstById({t \in Q.trees : t.id = tree_id}) ELSE {}
        res   == create_or_increment_tree_version(
                     Q, IF found # {} THEN (CHOOSE t \in found : TRUE).name ELSE "", "",
                     tree_id)
    IN  IF res.error THEN [sql |-> Q, tv |-> 0, error |-> TRUE]
        ELSE
        LET base_people == IF base_tree_version_id # 0
                           THEN {q \in Q.persons : q.tree_version_id = base_tree_version_id}
                           ELSE {}
            base_ids    == {q.id : q \in base_people}
            copied      == [k \in base_ids |->
                               Q.person_seq + Cardinality({j \in base_ids : j <= k})]
            base_rels   == IF base_tree_version_id # 0
                           THEN {x \in BagToSet(Q.relationships) :
                                    x.tree_version_id = base_tree_version_id}
                           ELSE {}
            Copy(x)     == SqlRow(IF MapGet(copied, x.from_person_id) # 0
                                  THEN MapGet(copied, x.from_person_id)
                                  ELSE x.from_person_id,
                                  IF x.to_person_id # 0 /\ MapGet(copied, x.to_person_id) # 0
                                  THEN MapGet(copied, x.to_person_id)
                                  ELSE x.to_person_id,
                                  x.type, res.tree, res.tv)
            new_rels    == [y \in {Copy(x) : x \in base_rels} |->
                               CountIn(Q.relationships, {x \in base_rels : Copy(x) = y})]
            drafts      == SelectSeq(Q.drafts,
                               LAMBDA d : /\ d.tree_id = res.tree
                                          /\ d.base_tree_version_id = base_tree_version_id)
            st0         == [persons |-> Q.persons \cup
                                        {SqlPerson(copied[k], res.tree, res.tv) : k \in base_ids},
                            relationships |-> Q.relationships (+) new_rels,
                            map |-> copied,
                            person_seq |-> Q.person_seq + Cardinality(base_ids),
                            kept |-> {}]
            st          == apply_drafts(st0, drafts, res.tree, res.tv)
        IN  [sql |-> [trees |-> res.trees, versions |-> res.versions,
                      persons |-> st.persons, relationships |-> st.relationships,
                      drafts |-> SelectSeq(Q.drafts,
                                    LAMBDA d : ~(/\ d.tree_id = res.tree
                                                 /\ d.base_tree_version_id = base_tree_version_id)
                                               \/ d.id \in st.kept),
                      person_seq |-> st.person_seq, draft_seq |-> Q.draft_seq],
             tv |-> res.tv, error |-> FALSE]

VersionTreeIds == 0 .. 2
BaseVersionIds == 0 .. 2
DraftOps == {"create", "replace", "delete"}

\* the drafts the clients send: a new person, the deletion or the edit of
\* person 1, and a relationship of person 1 to create, replace or delete
DraftInputs ==
    {[change_type |-> "person", payload |-> Payload(0, FALSE, 0, 0, "", "")]}
    \cup {[change_type |-> "person", payload |-> Payload(1, del, 0, 0, "", "")] :
             del \in BOOLEAN}
    \cup {[change_type |-> "relationship", payload |-> Payload(0, FALSE, 1, 2, "CHILD_OF", op)] :
             op \in DraftOps}

call_create_or_increment_tree_version(name, source_filename, tree_id) ==
    LET res == create_or_increment_tree_version(sql, name, source_filename, tree_id)
    IN  /\ Cardinality(sql.versions) < MaxVersions
        /\ sql' = [sql EXCEPT !.trees = res.trees, !.versions = res.versions]
        /\ resp' = [op |-> "create_or_increment_tree_version",
                    status |-> IF res.error THEN 400 ELSE 200]
        /\ UNCHANGED kuzuVars
        /\ UNCHANGED graphVars

call_publish_drafts(tree_id, base_tree_version_id) ==
    LET res == publish_drafts(sql, tree_id, base_tree_version_id)
    IN  /\ Cardinality(sql.versions) < MaxVersions
        /\ res.sql.person_seq <= MaxSqlPersons
        /\ BagCardinality(res.sql.relationships) <= MaxPublishedRels
        /\ sql' = res.sql
        /\ resp' = [op |-> "publish_drafts", status |-> IF res.error THEN 400 ELSE 200]
        /\ UNCHANGED kuzuVars
        /\ UNCHANGED graphVars

call_sql_create_person(tree_id, tree_version_id) ==
    /\ sql.person_seq < MaxSqlPersons
    /\ sql' = sql_create_person(sql, tree_id, tree_version_id)
    /\ resp' = [op |-> "sql_create_person", status |-> 200]
    /\ UNCHANGED kuzuVars
    /\ UNCHANGED graphVars

call_create_draft(tree_id, base_tree_version_id, change_type, payload) ==
    /\ sql.draft_seq < MaxDrafts
    /\ sql' = create_draft(sql, tree_id, base_tree_version_id, change_type, payload)
    /\ resp' = [op |-> "create_draft", status |-> 200]
    /\ UNCHANGED kuzuVars
    /\ UNCHANGED graphVars

NextVersions ==
    \/ \E name \in TreeNames, source_filename \in SourceFilenames, tree_id \in VersionTreeIds :
          call_create_or_increment_tree_version(name, source_filename, tree_id)
    \/ \E tree_id \in VersionTreeIds, base \in BaseVersionIds :
          call_publish_drafts(tree_id, base)
    \/ call_sql_create_person(1, 1)
    \/ /\ BagCardinality(sql.relationships) < MaxDirectRels
       /\ \/ call_sql_create_relationship(1, 0, "EARLIEST_ANCESTOR", 1, 1)
          \/ call_sql_create_relationship(1, 2, "CHILD_OF", 1, 1)
    \/ \E d \in DraftInputs : call_create_draft(1, 1, d.change_type, d.payload)

SpecVersions == Init /\ [][NextVersions]_vars

\* the rows of tree_versions of one tree
VersionsOf(tree_id) == {v \in sql.versions : v.tree_id = tree_id}

\* C30: after any sequence of create_or_increment_tree_version and
\* publish_drafts calls, each tree has exactly one active version, that
\* version carries the highest number, and the numbers of the tree's versions
\* are 1, 2, 3, ... without gap or repeat.
C30_OneActiveHighestVersion ==
    \A t \in sql.trees :
        LET V == VersionsOf(t.id)
        IN  /\ V # {}
            /\ {v.version : v \in V} = 1 .. Cardinality(V)
            /\ Cardinality({v \in V : v.active}) = 1
            /\ \A v \in V : v.active <=> v.version = Cardinality(V)

\* a tree reached its third version by publish_drafts, and a relationship of
\* the first version was copied into a later one
C30_Witness ==
    /\ resp.op = "publish_drafts"
    /\ resp.status = 200
    /\ \E t \in sql.trees :
          /\ Cardinality(VersionsOf(t.id)) = 3
          /\ \E v \in VersionsOf(t.id) :
                /\ v.version = 3
                /\ v.active
          /\ \E x \in BagToSet(sql.relationships), v \in VersionsOf(t.id) :
                x.tree_version_id = v.id /\ v.version > 1
====
